---- MODULE Spec2Model ----
(***************************************************************************)
(* Double-entry ledger (double-rust-ledger): the HTTP handlers of          *)
(* src/src/handlers over the three tables of src/src/schema.rs.            *)
(*                                                                         *)
(* One handler invocation is one action.  A request is taken only when no  *)
(* response is pending (resp.op = "idle"); Respond hands the response to   *)
(* the caller.  Every handler records the request it served, the storage   *)
(* fault it met (if any) and the response it produced in resp.             *)
(*                                                                         *)
(* Not modelled: timestamps, transaction_date, parent_id, is_active and    *)
(* the entry description (no handler branches on them).                    *)
(***************************************************************************)
EXTENDS Integers, Sequences, FiniteSets, TLC

VARIABLES accounts, transactions, entries, nextAccountId, nextTransactionId, resp,
          hist, run, pool

vars == <<accounts, transactions, entries, nextAccountId, nextTransactionId, resp,
          hist, run, pool>>

\* What Spec leaves alone: hist is the record of earlier answers that an
\* observer keeps (SpecHist); run holds the invocations that are under way
\* at once, statement by statement (SpecConc); pool holds the connections
\* the invocations have out of the pool (SpecPool).
Aux == <<hist, run, pool>>

\* The three tables as one value, as a connection sees them.
Db == [accounts |-> accounts, transactions |-> transactions, entries |-> entries]

(***************************************************************************)
(* Bounds of the model.                                                    *)
(***************************************************************************)
\* Ids handed out to accounts (Uuid::new_v4 in create_account).
MaxAccounts == 2
\* Ids handed out to transactions (Uuid::new_v4 in create_transaction).
MaxTx == 2
\* Longest entry list of a submitted request.
MaxEntries == 2

(***************************************************************************)
(* Program constants: the length limits of the request validators.         *)
(***************************************************************************)
ReferenceMaxLen == 50
DescriptionMaxLen == 500
CodeMaxLen == 20
NameMaxLen == 255

RECURSIVE Repeat(_, _)
\* A string of n copies of c (test data for the length limits).
Repeat(c, n) ==
    IF n = 0 THEN ""
    ELSE IF n % 2 = 0 THEN LET half == Repeat(c, n \div 2) IN half \o half
    ELSE c \o Repeat(c, n - 1)

(***************************************************************************)
(* rust_decimal::Decimal: a mantissa m and a scale s, value m / 10^s.      *)
(***************************************************************************)
Dec(m, s) == [m |-> m, s |-> s]

\* Decimal::ZERO
ZERO == Dec(0, 0)

RECURSIVE Pow10(_)
Pow10(n) == IF n = 0 THEN 1 ELSE 10 * Pow10(n - 1)

MaxOf(a, b) == IF a >= b THEN a ELSE b

\* Decimal + Decimal: exact, at the larger of the two scales.
DecAdd(a, b) ==
    LET s == MaxOf(a.s, b.s)
    IN  Dec(a.m * Pow10(s - a.s) + b.m * Pow10(s - b.s), s)

\* Decimal - Decimal.
DecSub(a, b) == DecAdd(a, Dec(0 - b.m, b.s))

\* Decimal == Decimal: numeric equality, whatever the scales (1.0 == 1).
DecEq(a, b) == a.m * Pow10(b.s) = b.m * Pow10(a.s)

\* Text is a sequence of one-character strings.
DigitChars == <<"0", "1", "2", "3", "4", "5", "6", "7", "8", "9">>

DigitValue(c) == CHOOSE i \in 0..9 : DigitChars[i + 1] = c

IsDigit(c) == \E i \in 1..10 : DigitChars[i] = c

RECURSIVE NatToText(_)
\* The decimal digits of a natural number.
NatToText(n) ==
    IF n < 10 THEN <<DigitChars[n + 1]>>
    ELSE NatToText(n \div 10) \o <<DigitChars[(n % 10) + 1]>>

RECURSIVE PadLeft(_, _)
\* t with zeros in front until it has at least n characters.
PadLeft(t, n) == IF Len(t) >= n THEN t ELSE PadLeft(<<"0">> \o t, n)

\* Decimal::to_string: sign, integer digits, and the s fraction digits
\* behind a point when the scale is not zero.
DecToString(d) ==
    LET abs    == IF d.m < 0 THEN 0 - d.m ELSE d.m
        digits == PadLeft(NatToText(abs), d.s + 1)
        cut    == Len(digits) - d.s
        body   == IF d.s = 0 THEN digits
                  ELSE SubSeq(digits, 1, cut) \o <<".">> \o SubSeq(digits, cut + 1, Len(digits))
    IN  IF d.m < 0 THEN <<"-">> \o body ELSE body

RECURSIVE TextToNat(_)
\* The number a non-empty sequence of digits spells.
TextToNat(t) ==
    IF Len(t) = 1 THEN DigitValue(t[1])
    ELSE 10 * TextToNat(SubSeq(t, 1, Len(t) - 1)) + DigitValue(t[Len(t)])

\* str.parse::<Decimal>(): <<d>> for a well-formed number, <<>> for an error.
ParseDecimal(t) ==
    LET neg    == Len(t) > 0 /\ t[1] = "-"
        u      == IF neg THEN Tail(t) ELSE t
        points == {i \in 1..Len(u) : u[i] = "."}
        digits == SelectSeq(u, IsDigit)
        frac   == IF points = {} THEN 0
                  ELSE Len(u) - (CHOOSE i \in points : TRUE)
        wellFormed ==
            /\ Len(digits) > 0
            /\ Cardinality(points) <= 1
            /\ Len(digits) + Cardinality(points) = Len(u)
        n      == TextToNat(digits)
    IN  IF wellFormed THEN <<Dec(IF neg THEN 0 - n ELSE n, frac)>> ELSE <<>>

\* Option::unwrap_or and Result::unwrap_or: an option is <<>> or <<value>>.
UnwrapOr(opt, default) == IF opt = <<>> THEN default ELSE opt[1]

\* stored_text.parse().unwrap_or(Decimal::ZERO)
ParseAmount(t) == UnwrapOr(ParseDecimal(t), ZERO)

(***************************************************************************)
(* Errors (src/src/errors.rs).  A diesel error is a string: "NotFound",    *)
(* "UniqueViolation", "ForeignKeyViolation" or "StorageFailure" (any other *)
(* failure of the statement: busy or locked database, I/O error).          *)
(***************************************************************************)
\* A mapping that takes every diesel error as a database error.
FromDieselErrorFlat(e) == "DatabaseError"

\* impl From<DieselError> for AppError
FromDieselError(e) == IF e = "NotFound" THEN "NotFound" ELSE "DatabaseError"

\* impl From<r2d2::Error> for AppError
FromR2d2Error == "DatabaseError"

\* The result of a statement that writes: the tables as it leaves them.
StmtOk(db) == [ok |-> TRUE, err |-> "", db |-> db]
StmtErr(e, db) == [ok |-> FALSE, err |-> e, db |-> db]

\* The result of a query.
QueryOk(v) == [ok |-> TRUE, err |-> "", val |-> v]
QueryErr(e) == [ok |-> FALSE, err |-> e, val |-> <<>>]

\* A storage fault: the statement of the handler at which the store fails.
NoFault == <<"none", 0>>
Fault(stmt, k) == <<stmt, k>>

(***************************************************************************)
(* Constraints of the tables.  The migrations that declare them are not    *)
(* part of the sources at hand; they are taken from the data model of the  *)
(* specification (unique reference, unique code, entry -> account          *)
(* reference, transaction owning its entries).                             *)
(***************************************************************************)
\* transactions.reference is unique.
ReferenceIsUnique(txs, reference) == \A t \in txs : t.reference # reference

\* accounts.code is unique (among the other accounts).
CodeIsUnique(accts, id, code) == \A a \in accts : a.id = id \/ a.code # code

\* entries.account_id references accounts.id.
AccountForeignKeyHolds(accts, account_id) == \E a \in accts : a.id = account_id

\* entries.transaction_id references transactions.id ON DELETE CASCADE: the
\* entries left once the transactions with these ids are deleted.
CascadeDelete(ents, deletedIds) == {e \in ents : e.transaction_id \notin deletedIds}

\* entries.account_id restricts the deletion of an account that has entries.
AccountIsReferenced(ents, account_id) == \E e \in ents : e.account_id = account_id

(***************************************************************************)
(* Request validation (#[derive(Validate)], src/src/models.rs).            *)
(***************************************************************************)
\* #[validate(length(min = .., max = ..))]
ValidLength(s, min, max) == Len(s) >= min /\ Len(s) <= max

\* A validator that bounds the lengths from above only.
ValidateCreateTransactionRequestNoMin(req) ==
    /\ Len(req.reference) <= ReferenceMaxLen
    /\ Len(req.description) <= DescriptionMaxLen

\* CreateTransactionRequest::validate
ValidateCreateTransactionRequest(req) ==
    /\ ValidLength(req.reference, 1, ReferenceMaxLen)
    /\ ValidLength(req.description, 1, DescriptionMaxLen)

(***************************************************************************)
(* create_transaction (src/src/handlers/transactions.rs).                  *)
(***************************************************************************)
RECURSIVE TotalDebits(_)
\* total_debits after the loop over the entries: absent amounts are skipped.
TotalDebits(es) ==
    IF es = <<>> THEN ZERO
    ELSE LET front == TotalDebits(SubSeq(es, 1, Len(es) - 1))
             last  == es[Len(es)]
         IN  IF last.debit_amount = <<>> THEN front
             ELSE DecAdd(front, last.debit_amount[1])

\* The credit loop adding the debit field (a copy of the debit loop).
TotalCreditsFromDebits(es) == TotalDebits(es)

RECURSIVE TotalCredits(_)
\* total_credits after the loop over the entries.
TotalCredits(es) ==
    IF es = <<>> THEN ZERO
    ELSE LET front == TotalCredits(SubSeq(es, 1, Len(es) - 1))
             last  == es[Len(es)]
         IN  IF last.credit_amount = <<>> THEN front
             ELSE DecAdd(front, last.credit_amount[1])


\* The emptiness check left out.
HasNoEntriesNever(es) == FALSE

\* The balance check left out.
IsBalancedAlways(es) == TRUE

\* A balance check that an empty entry list fails.
IsBalancedRejectingEmpty(es) == es # <<>> /\ DecEq(TotalDebits(es), TotalCredits(es))

\* if total_debits != total_credits { return Err(..) }
IsBalanced(es) == DecEq(TotalDebits(es), TotalCredits(es))

\* if transaction_data.entries.is_empty() { return Err(..) }
HasNoEntries(es) == Len(es) = 0

\* NewTransaction { id, reference, description, .. }
NewTransaction(tid, req) ==
    [id |-> tid, reference |-> req.reference, description |-> req.description]

\* An entry row that keeps one amount only: the credit is dropped when a
\* debit is given.
NewEntryOneSided(tid, k, e) ==
    [id |-> <<tid, k>>, transaction_id |-> tid, account_id |-> e.account_id,
     debit_amount   |-> DecToString(UnwrapOr(e.debit_amount, ZERO)),
     credit_amount  |-> IF e.debit_amount # <<>> THEN DecToString(ZERO)
                        ELSE DecToString(UnwrapOr(e.credit_amount, ZERO))]

\* NewEntry { id: Uuid::new_v4(), transaction_id, account_id, debit_amount,
\* credit_amount, .. }: the k-th entry of transaction tid; amounts as text.
NewEntry(tid, k, e) ==
    [id             |-> <<tid, k>>,
     transaction_id |-> tid,
     account_id     |-> e.account_id,
     debit_amount   |-> DecToString(UnwrapOr(e.debit_amount, ZERO)),
     credit_amount  |-> DecToString(UnwrapOr(e.credit_amount, ZERO))]

\* An insert into a table that accepts any reference.
InsertTransactionUnchecked(db, row) == StmtOk([db EXCEPT !.transactions = @ \cup {row}])

\* diesel::insert_into(transactions::table).values(&new_transaction)
InsertTransaction(db, row) ==
    IF ~ReferenceIsUnique(db.transactions, row.reference)
    THEN StmtErr("UniqueViolation", db)
    ELSE StmtOk([db EXCEPT !.transactions = @ \cup {row}])

\* diesel::insert_into(entries::table).values(&new_entry)
InsertEntry(db, row) ==
    IF ~AccountForeignKeyHolds(db.accounts, row.account_id)
    THEN StmtErr("ForeignKeyViolation", db)
    ELSE StmtOk([db EXCEPT !.entries = @ \cup {row}])

RECURSIVE InsertEntriesDroppingErrors(_, _, _, _, _)
\* An entry loop that goes on to the next entry when an insert fails.
InsertEntriesDroppingErrors(db, tid, es, k, fault) ==
    IF k > Len(es) THEN StmtOk(db)
    ELSE LET r == IF fault = Fault("insert_entry", k) THEN StmtErr("StorageFailure", db)
                  ELSE InsertEntry(db, NewEntry(tid, k, es[k]))
         IN  InsertEntriesDroppingErrors(r.db, tid, es, k + 1, fault)

RECURSIVE InsertEntries(_, _, _, _, _)
\* for entry_data in &transaction_data.entries { insert ..? }, from the k-th.
InsertEntries(db, tid, es, k, fault) ==
    IF k > Len(es) THEN StmtOk(db)
    ELSE IF fault = Fault("insert_entry", k) THEN StmtErr("StorageFailure", db)
    ELSE LET Then(r) == IF r.ok THEN InsertEntries(r.db, tid, es, k + 1, fault) ELSE r
         IN  Then(InsertEntry(db, NewEntry(tid, k, es[k])))

\* The closure run inside conn.transaction: insert the transaction row, insert
\* the entries, read the transaction row back by its id.
TransactionBody(db, tid, req, fault) ==
    IF fault = Fault("insert_transaction", 0) THEN StmtErr("StorageFailure", db)
    ELSE LET Find(r2) ==
                 IF ~r2.ok THEN r2
                 ELSE IF fault = Fault("find_transaction", 0)
                 THEN StmtErr("StorageFailure", r2.db)
                 ELSE IF \A t \in r2.db.transactions : t.id # tid
                 THEN StmtErr("NotFound", r2.db)
                 ELSE r2
             Entries(r1) ==
                 IF ~r1.ok THEN r1
                 ELSE Find(InsertEntries(r1.db, tid, req.entries, 1, fault))
         IN  Entries(InsertTransaction(db, NewTransaction(tid, req)))

\* A connection that runs the closure and never rolls back.
ConnTransactionNoRollback(before, r, fault) ==
    IF r.ok /\ fault = Fault("commit", 0) THEN StmtErr("StorageFailure", r.db)
    ELSE r

\* conn.transaction(|conn| ..): COMMIT when the closure returns Ok, ROLLBACK
\* to the tables as they were before it when it returns Err or COMMIT fails.
ConnTransaction(before, r, fault) ==
    IF r.ok /\ fault # Fault("commit", 0) THEN r
    ELSE IF r.ok THEN StmtErr("StorageFailure", before)
    ELSE StmtErr(r.err, before)

\* .first(conn) without ORDER BY: the matching row stored first.
FirstRow(rows) == CHOOSE t \in rows : \A u \in rows : t.id <= u.id

\* EntryWithAccount { .., account_code, account_name, debit_amount, .. }
EntryWithAccount(e, a) ==
    [id             |-> e.id,
     transaction_id |-> e.transaction_id,
     account_id     |-> e.account_id,
     account_code   |-> a.code,
     account_name   |-> a.name,
     debit_amount   |-> ParseAmount(e.debit_amount),
     credit_amount  |-> ParseAmount(e.credit_amount)]

\* The join without the filter on the transaction id.
JoinEntriesAccountsUnfiltered(db, tid) ==
    {EntryWithAccount(p[1], p[2]) :
        p \in {q \in db.entries \X db.accounts : q[2].id = q[1].account_id}}

\* entries INNER JOIN accounts ON accounts.id = entries.account_id
\* WHERE entries.transaction_id = tid, mapped to EntryWithAccount.
JoinEntriesAccounts(db, tid) ==
    {EntryWithAccount(p[1], p[2]) :
        p \in {q \in db.entries \X db.accounts :
                  q[1].transaction_id = tid /\ q[2].id = q[1].account_id}}

\* TransactionWithEntries { id, reference, description, .., entries }
TransactionWithEntries(t, es) ==
    [id |-> t.id, reference |-> t.reference, description |-> t.description,
     entries |-> es]

\* get_transaction_with_entries(conn, ref_id): by reference.
get_transaction_with_entries(db, ref_id, fault) ==
    LET matches == {t \in db.transactions : t.reference = ref_id}
    IN  IF fault = Fault("read_transaction", 0) THEN QueryErr("StorageFailure")
        ELSE IF matches = {} THEN QueryErr("NotFound")
        ELSE IF fault = Fault("read_entries", 0) THEN QueryErr("StorageFailure")
        ELSE LET t == FirstRow(matches)
             IN  QueryOk(TransactionWithEntries(t, JoinEntriesAccounts(db, t.id)))

\* get_transaction_with_entries_by_id(conn, trans_id): by id.
get_transaction_with_entries_by_id(db, trans_id, fault) ==
    LET matches == {t \in db.transactions : t.id = trans_id}
    IN  IF fault = Fault("read_transaction", 0) THEN QueryErr("StorageFailure")
        ELSE IF matches = {} THEN QueryErr("NotFound")
        ELSE IF fault = Fault("read_entries", 0) THEN QueryErr("StorageFailure")
        ELSE LET t == FirstRow(matches)
             IN  QueryOk(TransactionWithEntries(t, JoinEntriesAccounts(db, trans_id)))

\* What a handler hands back: the error kind (or "ok"), the message, the
\* payload, the tables as it leaves them, the fault that struck.
Outcome(kind, msg, body, db, fault) ==
    [kind |-> kind, msg |-> msg, body |-> body, db |-> db, fault |-> fault]

\* The body of create_transaction for request req, with tid the id that
\* Uuid::new_v4 yields; generated tells whether that id was drawn.
CreateTransactionOutcome(db, tid, req, fault) ==
    IF ~ValidateCreateTransactionRequest(req)
    THEN [generated |-> FALSE, out |-> Outcome("ValidationError", "Validation failed", <<>>, db, NoFault)]
    ELSE IF ~IsBalanced(req.entries)
    THEN [generated |-> FALSE, out |-> Outcome("ValidationError", "Total debits must equal total credits", <<>>, db, NoFault)]
    ELSE IF HasNoEntries(req.entries)
    THEN [generated |-> FALSE, out |-> Outcome("ValidationError", "Transaction must have at least one entry", <<>>, db, NoFault)]
    ELSE IF fault = Fault("pool", 0)
    THEN [generated |-> FALSE, out |-> Outcome(FromR2d2Error, "Connection pool error", <<>>, db, fault)]
    ELSE LET ReadBack(r, q) ==
                 IF ~q.ok
                 THEN [generated |-> TRUE,
                       out |-> Outcome(FromDieselError(q.err), q.err, <<>>, r.db,
                                       IF q.err = "StorageFailure" THEN fault ELSE NoFault)]
                 ELSE [generated |-> TRUE,
                       out |-> Outcome("ok", "", q.val, r.db, NoFault)]
             Committed(r) ==
                 IF ~r.ok
                 THEN [generated |-> TRUE,
                       out |-> Outcome(FromDieselError(r.err), r.err, <<>>, r.db,
                                       IF r.err = "StorageFailure" THEN fault ELSE NoFault)]
                 ELSE ReadBack(r, get_transaction_with_entries(r.db, req.reference, fault))
         IN  Committed(ConnTransaction(db, TransactionBody(db, tid, req, fault), fault))

(***************************************************************************)
(* delete_transaction, get_transaction, get_all_transactions.              *)
(***************************************************************************)
\* The delete without its filter: every row.
DeleteTransactionTargetUnfiltered(txs, trans_id) == txs

\* transactions::table.filter(transactions::id.eq(&trans_id)): the rows deleted.
DeleteTransactionTarget(txs, trans_id) == {t \in txs : t.id = trans_id}

\* The body of delete_transaction.
DeleteTransactionOutcome(db, trans_id, fault) ==
    IF fault = Fault("pool", 0)
    THEN Outcome(FromR2d2Error, "Connection pool error", <<>>, db, fault)
    ELSE IF fault = Fault("delete", 0)
    THEN Outcome(FromDieselError("StorageFailure"), "StorageFailure", <<>>, db, fault)
    ELSE LET gone == DeleteTransactionTarget(db.transactions, trans_id)
             after == [db EXCEPT !.transactions = @ \ gone,
                                 !.entries = CascadeDelete(@, {t.id : t \in gone})]
         IN  IF Cardinality(gone) = 0
             THEN Outcome("NotFound", "Transaction not found", <<>>, after, NoFault)
             ELSE Outcome("ok", "", "Transaction deleted successfully", after, NoFault)

\* The body of get_transaction.
GetTransactionOutcome(db, trans_id, fault) ==
    IF fault = Fault("pool", 0)
    THEN Outcome(FromR2d2Error, "Connection pool error", <<>>, db, fault)
    ELSE LET Read(q) ==
                 IF ~q.ok
                 THEN Outcome(FromDieselError(q.err), q.err, <<>>, db,
                              IF q.err = "StorageFailure" THEN fault ELSE NoFault)
                 ELSE Outcome("ok", "", q.val, db, NoFault)
         IN  Read(get_transaction_with_entries_by_id(db, trans_id, fault))

RECURSIVE NewestFirst(_)
\* .order(created_at.desc()): rows by creation, the newest first (ids are
\* handed out in creation order).
NewestFirst(rows) ==
    IF rows = {} THEN <<>>
    ELSE LET top == CHOOSE t \in rows : \A u \in rows : u.id <= t.id
         IN  <<top>> \o NewestFirst(rows \ {top})

\* A listing that removes the rows it lists.
GetAllTransactionsOutcomeDraining(db, fault) ==
    Outcome("ok", "", NewestFirst(db.transactions),
            [db EXCEPT !.transactions = {}, !.entries = {}], NoFault)

\* The body of get_all_transactions.
GetAllTransactionsOutcome(db, fault) ==
    IF fault = Fault("pool", 0)
    THEN Outcome(FromR2d2Error, "Connection pool error", <<>>, db, fault)
    ELSE IF fault = Fault("read_transaction", 0)
    THEN Outcome(FromDieselError("StorageFailure"), "StorageFailure", <<>>, db, fault)
    ELSE Outcome("ok", "", NewestFirst(db.transactions), db, NoFault)

(***************************************************************************)
(* Accounts (src/src/models.rs, src/src/handlers/accounts.rs).             *)
(***************************************************************************)
\* enum AccountType
AccountTypes == {"Asset", "Liability", "Equity", "Revenue", "Expense"}

\* impl From<AccountType> for String
AccountTypeToString(t) ==
    CASE t = "Asset"     -> "asset"
      [] t = "Liability" -> "liability"
      [] t = "Equity"    -> "equity"
      [] t = "Revenue"   -> "revenue"
      [] t = "Expense"   -> "expense"

\* A conversion that knows no name.
AccountTypeFromStringDefaulting(s) == "Asset"

\* impl From<String> for AccountType
AccountTypeFromString(s) ==
    CASE s = "asset"     -> "Asset"
      [] s = "liability" -> "Liability"
      [] s = "equity"    -> "Equity"
      [] s = "revenue"   -> "Revenue"
      [] s = "expense"   -> "Expense"
      [] OTHER           -> "Asset"

\* CreateAccountRequest::validate
ValidateCreateAccountRequest(req) ==
    /\ ValidLength(req.code, 1, CodeMaxLen)
    /\ ValidLength(req.name, 1, NameMaxLen)

\* UpdateAccountRequest::validate: a field is checked when it is supplied.
ValidateUpdateAccountRequest(req) ==
    /\ req.code = <<>> \/ ValidLength(req.code[1], 1, CodeMaxLen)
    /\ req.name = <<>> \/ ValidLength(req.name[1], 1, NameMaxLen)

\* NewAccount { id, code, name, account_type: account_type.into(), .. }
NewAccount(id, req) ==
    [id |-> id, code |-> req.code, name |-> req.name,
     account_type |-> AccountTypeToString(req.account_type)]

\* A lookup that drops the id: the first account of the table.
FindAccountUnfiltered(db, account_id) ==
    IF db.accounts = {} THEN QueryErr("NotFound") ELSE QueryOk(FirstRow(db.accounts))

\* accounts::table.find(&account_id).first(conn)
FindAccount(db, account_id) ==
    LET matches == {a \in db.accounts : a.id = account_id}
    IN  IF matches = {} THEN QueryErr("NotFound") ELSE QueryOk(FirstRow(matches))

\* The body of create_account, with id the id that Uuid::new_v4 yields.
CreateAccountOutcome(db, id, req, fault) ==
    IF ~ValidateCreateAccountRequest(req)
    THEN [generated |-> FALSE, out |-> Outcome("ValidationError", "Validation failed", <<>>, db, NoFault)]
    ELSE IF fault = Fault("pool", 0)
    THEN [generated |-> FALSE, out |-> Outcome(FromR2d2Error, "Connection pool error", <<>>, db, fault)]
    ELSE IF fault = Fault("insert_account", 0)
    THEN [generated |-> TRUE, out |-> Outcome(FromDieselError("StorageFailure"), "StorageFailure", <<>>, db, fault)]
    ELSE IF ~CodeIsUnique(db.accounts, id, req.code)
    THEN [generated |-> TRUE, out |-> Outcome(FromDieselError("UniqueViolation"), "UniqueViolation", <<>>, db, NoFault)]
    ELSE LET Inserted(after) ==
                 IF fault = Fault("read_account", 0)
                 THEN [generated |-> TRUE, out |-> Outcome(FromDieselError("StorageFailure"), "StorageFailure", <<>>, after, fault)]
                 ELSE [generated |-> TRUE, out |-> Outcome("ok", "", FindAccount(after, id).val, after, NoFault)]
         IN  Inserted([db EXCEPT !.accounts = @ \cup {NewAccount(id, req)}])

\* diesel::update(accounts::table.find(&account_id)).set(column.eq(value)):
\* one UPDATE statement; no row matching is no error.
UpdateAccountColumn(db, account_id, column, value) ==
    IF column = "code" /\ ~CodeIsUnique(db.accounts, account_id, value)
                       /\ (\E a \in db.accounts : a.id = account_id)
    THEN StmtErr("UniqueViolation", db)
    ELSE StmtOk([db EXCEPT !.accounts =
                    {IF a.id = account_id THEN [a EXCEPT ![column] = value] ELSE a : a \in @}])

\* The UPDATE statements update_account issues for a request, in its order:
\* one per supplied field (the always-issued updated_at statement touches a
\* column that is not modelled and is the last statement, "updated_at").
UpdateStatements(req) ==
    (IF req.code = <<>> THEN <<>> ELSE <<<<"code", req.code[1]>>>>)
    \o (IF req.name = <<>> THEN <<>> ELSE <<<<"name", req.name[1]>>>>)
    \o (IF req.account_type = <<>> THEN <<>>
        ELSE <<<<"account_type", AccountTypeToString(req.account_type[1])>>>>)
    \o <<<<"updated_at", "now">>>>

RECURSIVE RunUpdates(_, _, _, _, _)
\* The statements from the k-th on, each committed on its own; stops at the
\* first that fails.
RunUpdates(db, account_id, stmts, k, fault) ==
    IF k > Len(stmts) THEN StmtOk(db)
    ELSE IF fault = Fault("update", k) THEN StmtErr("StorageFailure", db)
    ELSE LET Then(r) == IF r.ok THEN RunUpdates(r.db, account_id, stmts, k + 1, fault) ELSE r
         IN  Then(IF stmts[k][1] = "updated_at" THEN StmtOk(db)
                  ELSE UpdateAccountColumn(db, account_id, stmts[k][1], stmts[k][2]))

\* The body of update_account.
UpdateAccountOutcome(db, account_id, req, fault) ==
    IF ~ValidateUpdateAccountRequest(req)
    THEN Outcome("ValidationError", "Validation failed", <<>>, db, NoFault)
    ELSE IF fault = Fault("pool", 0)
    THEN Outcome(FromR2d2Error, "Connection pool error", <<>>, db, fault)
    ELSE LET Read(r, q) ==
                 IF ~q.ok THEN Outcome(FromDieselError(q.err), q.err, <<>>, r.db, NoFault)
                 ELSE Outcome("ok", "", q.val, r.db, NoFault)
             Updated(r) ==
                 IF ~r.ok
                 THEN Outcome(FromDieselError(r.err), r.err, <<>>, r.db,
                              IF r.err = "StorageFailure" THEN fault ELSE NoFault)
                 ELSE IF fault = Fault("read_account", 0)
                 THEN Outcome(FromDieselError("StorageFailure"), "StorageFailure", <<>>, r.db, fault)
                 ELSE Read(r, FindAccount(r.db, account_id))
         IN  Updated(RunUpdates(db, account_id, UpdateStatements(req), 1, fault))

\* A delete of the account whatever names it: its entries stay behind.
DeleteAccountOutcomeUnrestricted(db, account_id, fault) ==
    Outcome("ok", "", "Account deleted successfully",
            [db EXCEPT !.accounts = {a \in @ : a.id # account_id}], NoFault)

\* A delete of the account that takes the entries naming it along.
DeleteAccountOutcomeCascading(db, account_id, fault) ==
    Outcome("ok", "", "Account deleted successfully",
            [db EXCEPT !.accounts = {a \in @ : a.id # account_id},
                       !.entries = {e \in @ : e.account_id # account_id}], NoFault)

\* The body of delete_account.
DeleteAccountOutcome(db, account_id, fault) ==
    IF fault = Fault("pool", 0)
    THEN Outcome(FromR2d2Error, "Connection pool error", <<>>, db, fault)
    ELSE IF fault = Fault("delete", 0)
    THEN Outcome(FromDieselError("StorageFailure"), "StorageFailure", <<>>, db, fault)
    ELSE LET gone == {a \in db.accounts : a.id = account_id}
         IN  IF gone # {} /\ AccountIsReferenced(db.entries, account_id)
             THEN Outcome(FromDieselError("ForeignKeyViolation"), "ForeignKeyViolation", <<>>, db, NoFault)
             ELSE IF Cardinality(gone) = 0
             THEN Outcome("NotFound", "Account not found", <<>>, db, NoFault)
             ELSE Outcome("ok", "", "Account deleted successfully",
                          [db EXCEPT !.accounts = @ \ gone], NoFault)

\* The body of get_account.
GetAccountOutcome(db, account_id, fault) ==
    IF fault = Fault("pool", 0)
    THEN Outcome(FromR2d2Error, "Connection pool error", <<>>, db, fault)
    ELSE IF fault = Fault("read_account", 0)
    THEN Outcome(FromDieselError("StorageFailure"), "StorageFailure", <<>>, db, fault)
    ELSE LET Read(q) ==
                 IF ~q.ok THEN Outcome(FromDieselError(q.err), q.err, <<>>, db, NoFault)
                 ELSE Outcome("ok", "", q.val, db, NoFault)
         IN  Read(FindAccount(db, account_id))

\* The body of get_all_accounts.
GetAllAccountsOutcome(db, fault) ==
    IF fault = Fault("pool", 0)
    THEN Outcome(FromR2d2Error, "Connection pool error", <<>>, db, fault)
    ELSE IF fault = Fault("read_account", 0)
    THEN Outcome(FromDieselError("StorageFailure"), "StorageFailure", <<>>, db, fault)
    ELSE Outcome("ok", "", NewestFirst(db.accounts), db, NoFault)

(***************************************************************************)
(* get_balances, get_account_balance (src/src/handlers/balance.rs).        *)
(***************************************************************************)
\* The load without its filter: every entry.
AccountEntriesUnfiltered(db, acc_id) == db.entries

\* entries::table.filter(entries::account_id.eq(&acc_id)).load(conn)
AccountEntries(db, acc_id) == {e \in db.entries : e.account_id = acc_id}

RECURSIVE DebitTotal(_)
\* debit_total after the loop over the loaded entries.
DebitTotal(es) ==
    IF es = {} THEN ZERO
    ELSE LET Add(e) == DecAdd(DebitTotal(es \ {e}), ParseAmount(e.debit_amount))
         IN  Add(CHOOSE e \in es : TRUE)

RECURSIVE CreditTotal(_)
\* credit_total after the loop over the loaded entries.
CreditTotal(es) ==
    IF es = {} THEN ZERO
    ELSE LET Add(e) == DecAdd(CreditTotal(es \ {e}), ParseAmount(e.credit_amount))
         IN  Add(CHOOSE e \in es : TRUE)

\* A match that takes every type as debit-normal.
SignedBalanceDebitNormal(account_type, debit_total, credit_total) ==
    DecSub(debit_total, credit_total)

\* match account.account_type.as_str() { .. }
SignedBalance(account_type, debit_total, credit_total) ==
    IF account_type \in {"asset", "expense"} THEN DecSub(debit_total, credit_total)
    ELSE IF account_type \in {"liability", "equity", "revenue"}
    THEN DecSub(credit_total, debit_total)
    ELSE DecSub(debit_total, credit_total)

\* AccountBalance { account_id, .., debit_total, credit_total, balance }
AccountBalance(account, es) ==
    [account_id   |-> account.id,
     account_code |-> account.code,
     account_name |-> account.name,
     account_type |-> account.account_type,
     debit_total  |-> DebitTotal(es),
     credit_total |-> CreditTotal(es),
     balance      |-> SignedBalance(account.account_type, DebitTotal(es), CreditTotal(es))]

\* The body of get_account_balance.
GetAccountBalanceOutcome(db, acc_id, fault) ==
    IF fault = Fault("pool", 0)
    THEN Outcome(FromR2d2Error, "Connection pool error", <<>>, db, fault)
    ELSE IF fault = Fault("read_account", 0)
    THEN Outcome(FromDieselError("StorageFailure"), "StorageFailure", <<>>, db, fault)
    ELSE LET Found(q) ==
                 IF ~q.ok THEN Outcome(FromDieselError(q.err), q.err, <<>>, db, NoFault)
                 ELSE IF fault = Fault("read_entries", 0)
                 THEN Outcome(FromDieselError("StorageFailure"), "StorageFailure", <<>>, db, fault)
                 ELSE Outcome("ok", "", AccountBalance(q.val, AccountEntries(db, acc_id)), db, NoFault)
         IN  Found(FindAccount(db, acc_id))

\* A query that drops the filter on the account type.
FilterAccountsUnfiltered(accts, account_type_filter) == accts

\* account_query.filter(accounts::account_type.eq(account_type_filter)) when
\* the query names a type, every account when it names none.
FilterAccounts(accts, account_type_filter) ==
    IF account_type_filter = <<>> THEN accts
    ELSE {a \in accts : a.account_type = account_type_filter[1]}

RECURSIVE Balances(_, _)
\* for account in all_accounts { .. balances.push(AccountBalance { .. }) }:
\* one record per loaded account, in the order of the load (rows come in
\* the order of their creation).
Balances(db, all_accounts) ==
    IF all_accounts = {} THEN <<>>
    ELSE LET Push(a) == <<AccountBalance(a, AccountEntries(db, a.id))>>
                            \o Balances(db, all_accounts \ {a})
         IN  Push(FirstRow(all_accounts))

\* The body of get_balances; the entries of the first account are the first
\* to be loaded.
GetBalancesOutcome(db, account_type_filter, fault) ==
    IF fault = Fault("pool", 0)
    THEN Outcome(FromR2d2Error, "Connection pool error", <<>>, db, fault)
    ELSE IF fault = Fault("read_account", 0)
    THEN Outcome(FromDieselError("StorageFailure"), "StorageFailure", <<>>, db, fault)
    ELSE LET Loaded(all_accounts) ==
                 IF all_accounts # {} /\ fault = Fault("read_entries", 0)
                 THEN Outcome(FromDieselError("StorageFailure"), "StorageFailure", <<>>, db, fault)
                 ELSE Outcome("ok", "", Balances(db, all_accounts), db, NoFault)
         IN  Loaded(FilterAccounts(db.accounts, account_type_filter))

(***************************************************************************)
(* The requests the callers send.                                          *)
(***************************************************************************)
\* Option<T> over a set of values.
Opt(S) == {<<>>} \cup {<<v>> : v \in S}

\* Account ids a caller may name: 0 is never handed out.
AccountIdInputs == 0..MaxAccounts

\* Transaction ids a caller may name: 0 is never handed out.
TransactionIdInputs == 0..MaxTx

\* debit_amount: absent or 1.0
DebitInputs == Opt({Dec(10, 1)})

\* credit_amount: absent or 1 (the debit's value at another scale)
CreditInputs == Opt({Dec(1, 0)})

\* CreateEntryRequest { account_id, debit_amount, credit_amount, .. }
EntryInputs ==
    [account_id : AccountIdInputs, debit_amount : DebitInputs, credit_amount : CreditInputs]

\* Vec<CreateEntryRequest> of at most MaxEntries entries.
EntryLists == UNION {[1..n -> EntryInputs] : n \in 0..MaxEntries}

\* reference: two references of legal length (one of the greatest length),
\* the empty one and one that is too long.
ReferenceInputs == {"", "TXN-1", Repeat("r", ReferenceMaxLen), Repeat("r", ReferenceMaxLen + 1)}

\* description: of legal length (1, and the greatest), empty, too long.
DescriptionInputs == {"", "d", Repeat("d", DescriptionMaxLen), Repeat("d", DescriptionMaxLen + 1)}

\* CreateTransactionRequest { reference, description, entries, .. }: every
\* entry list under the reference "TXN-1" and the description "d"; the other
\* references and descriptions with the entry lists of at most one entry.
CreateTransactionRequests ==
    {r \in [reference : ReferenceInputs, description : DescriptionInputs, entries : EntryLists] :
        \/ r.reference = "TXN-1" /\ r.description = "d"
        \/ Len(r.entries) <= 1 /\ (r.description = "d" \/ r.reference = "TXN-1")}

\* CreateAccountRequest { code, name, account_type, .. }: a cash account, a
\* sales account, and a request with an empty code.
CreateAccountRequests ==
    {[code |-> "1000", name |-> "Cash", account_type |-> "Asset"],
     [code |-> "2000", name |-> "Sales", account_type |-> "Revenue"],
     [code |-> "", name |-> "Cash", account_type |-> "Asset"]}

\* UpdateAccountRequest { code, name, account_type, .. }: rename to "Sales"
\* and retype to revenue.
UpdateAccountRequests ==
    {[code |-> <<>>, name |-> <<"Sales">>, account_type |-> <<"Revenue">>]}

\* The statement at which the store may fail, per handler.
CreateTransactionFaults ==
    {NoFault, Fault("pool", 0), Fault("insert_transaction", 0), Fault("find_transaction", 0),
     Fault("commit", 0), Fault("read_transaction", 0), Fault("read_entries", 0)}
    \cup {Fault("insert_entry", k) : k \in 1..MaxEntries}

DeleteFaults == {NoFault, Fault("pool", 0), Fault("delete", 0)}

ReadTransactionFaults ==
    {NoFault, Fault("pool", 0), Fault("read_transaction", 0), Fault("read_entries", 0)}

ReadAccountFaults == {NoFault, Fault("pool", 0), Fault("read_account", 0)}

CreateAccountFaults ==
    {NoFault, Fault("pool", 0), Fault("insert_account", 0), Fault("read_account", 0)}

UpdateAccountFaults ==
    {NoFault, Fault("pool", 0), Fault("read_account", 0)} \cup {Fault("update", k) : k \in 1..4}

\* BalanceQuery { account_type, .. }: no filter, the two stored types, and a
\* type no stored account has.
AccountTypeFilterInputs == Opt({"asset", "revenue", "expense"})

BalanceFaults ==
    {NoFault, Fault("pool", 0), Fault("read_account", 0), Fault("read_entries", 0)}

(***************************************************************************)
(* The state machine.                                                      *)
(***************************************************************************)
Idle == [op |-> "idle"]

\* No answer and no submission has been seen.
NoHistory ==
    [last    |-> [id \in 1..MaxAccounts |-> <<>>],
     listed  |-> <<>>,
     prev    |-> <<>>,
     pending |-> [tid \in 1..MaxTx |-> <<>>],
     undone  |-> <<>>]

\* The tables after the migrations: empty.
Init ==
    /\ accounts = {}
    /\ transactions = {}
    /\ entries = {}
    /\ nextAccountId = 1
    /\ nextTransactionId = 1
    /\ resp = Idle
    /\ hist = NoHistory
    /\ run = <<>>
    /\ pool = <<>>

\* The tables become what the handler left.
Store(db) ==
    /\ accounts' = db.accounts
    /\ transactions' = db.transactions
    /\ entries' = db.entries

\* POST /transactions
create_transaction(req, fault) ==
    /\ LET Answer(r) ==
               /\ Store(r.out.db)
               /\ nextTransactionId' = IF r.generated THEN nextTransactionId + 1 ELSE nextTransactionId
               /\ resp' = [op |-> "create_transaction", req |-> req, new_id |-> nextTransactionId,
                           generated |-> r.generated, fault |-> r.out.fault,
                           kind |-> r.out.kind, msg |-> r.out.msg, body |-> r.out.body]
       IN  Answer(CreateTransactionOutcome(Db, nextTransactionId, req, fault))
    /\ UNCHANGED nextAccountId

\* DELETE /transactions/{id}
delete_transaction(trans_id, fault) ==
    /\ LET Answer(out) ==
               /\ Store(out.db)
               /\ resp' = [op |-> "delete_transaction", id |-> trans_id, fault |-> out.fault,
                           kind |-> out.kind, msg |-> out.msg, body |-> out.body]
       IN  Answer(DeleteTransactionOutcome(Db, trans_id, fault))
    /\ UNCHANGED <<nextAccountId, nextTransactionId>>

\* GET /transactions/{id}
get_transaction(trans_id, fault) ==
    /\ LET Answer(out) ==
               /\ Store(out.db)
               /\ resp' = [op |-> "get_transaction", id |-> trans_id, fault |-> out.fault,
                           kind |-> out.kind, msg |-> out.msg, body |-> out.body]
       IN  Answer(GetTransactionOutcome(Db, trans_id, fault))
    /\ UNCHANGED <<nextAccountId, nextTransactionId>>

\* GET /transactions
get_all_transactions(fault) ==
    /\ LET Answer(out) ==
               /\ Store(out.db)
               /\ resp' = [op |-> "get_all_transactions", fault |-> out.fault,
                           kind |-> out.kind, msg |-> out.msg, body |-> out.body]
       IN  Answer(GetAllTransactionsOutcome(Db, fault))
    /\ UNCHANGED <<nextAccountId, nextTransactionId>>

\* POST /accounts
create_account(req, fault) ==
    /\ LET Answer(r) ==
               /\ Store(r.out.db)
               /\ nextAccountId' = IF r.generated THEN nextAccountId + 1 ELSE nextAccountId
               /\ resp' = [op |-> "create_account", req |-> req, new_id |-> nextAccountId,
                           generated |-> r.generated, fault |-> r.out.fault,
                           kind |-> r.out.kind, msg |-> r.out.msg, body |-> r.out.body]
       IN  Answer(CreateAccountOutcome(Db, nextAccountId, req, fault))
    /\ UNCHANGED nextTransactionId

\* PUT /accounts/{id}
update_account(account_id, req, fault) ==
    /\ LET Answer(out) ==
               /\ Store(out.db)
               /\ resp' = [op |-> "update_account", id |-> account_id, req |-> req,
                           fault |-> out.fault,
                           kind |-> out.kind, msg |-> out.msg, body |-> out.body]
       IN  Answer(UpdateAccountOutcome(Db, account_id, req, fault))
    /\ UNCHANGED <<nextAccountId, nextTransactionId>>

\* DELETE /accounts/{id}
delete_account(account_id, fault) ==
    /\ LET Answer(out) ==
               /\ Store(out.db)
               /\ resp' = [op |-> "delete_account", id |-> account_id, fault |-> out.fault,
                           kind |-> out.kind, msg |-> out.msg, body |-> out.body]
       IN  Answer(DeleteAccountOutcome(Db, account_id, fault))
    /\ UNCHANGED <<nextAccountId, nextTransactionId>>

\* GET /accounts/{id}
get_account(account_id, fault) ==
    /\ LET Answer(out) ==
               /\ Store(out.db)
               /\ resp' = [op |-> "get_account", id |-> account_id, fault |-> out.fault,
                           kind |-> out.kind, msg |-> out.msg, body |-> out.body]
       IN  Answer(GetAccountOutcome(Db, account_id, fault))
    /\ UNCHANGED <<nextAccountId, nextTransactionId>>

\* GET /accounts
get_all_accounts(fault) ==
    /\ LET Answer(out) ==
               /\ Store(out.db)
               /\ resp' = [op |-> "get_all_accounts", fault |-> out.fault,
                           kind |-> out.kind, msg |-> out.msg, body |-> out.body]
       IN  Answer(GetAllAccountsOutcome(Db, fault))
    /\ UNCHANGED <<nextAccountId, nextTransactionId>>

\* GET /balance
get_balances(account_type_filter, fault) ==
    /\ LET Answer(out) ==
               /\ Store(out.db)
               /\ resp' = [op |-> "get_balances", filter |-> account_type_filter,
                           fault |-> out.fault,
                           kind |-> out.kind, msg |-> out.msg, body |-> out.body]
       IN  Answer(GetBalancesOutcome(Db, account_type_filter, fault))
    /\ UNCHANGED <<nextAccountId, nextTransactionId>>

\* GET /balance/{account_id}
get_account_balance(acc_id, fault) ==
    /\ LET Answer(out) ==
               /\ Store(out.db)
               /\ resp' = [op |-> "get_account_balance", id |-> acc_id, fault |-> out.fault,
                           kind |-> out.kind, msg |-> out.msg, body |-> out.body]
       IN  Answer(GetAccountBalanceOutcome(Db, acc_id, fault))
    /\ UNCHANGED <<nextAccountId, nextTransactionId>>

\* The response leaves; the next request may be served.
Respond ==
    /\ resp.op # "idle"
    /\ resp' = Idle
    /\ UNCHANGED <<accounts, transactions, entries, nextAccountId, nextTransactionId>>
    /\ UNCHANGED Aux

\* A request is served when none is in progress (the handlers run one at a
\* time, each to its end); ids are drawn while the id bounds allow.
Next ==
    \/ /\ resp.op = "idle"
       /\ nextTransactionId <= MaxTx
       /\ \E req \in CreateTransactionRequests, f \in CreateTransactionFaults :
             create_transaction(req, f)
       /\ UNCHANGED Aux
    \/ /\ resp.op = "idle"
       /\ \E id \in TransactionIdInputs, f \in DeleteFaults : delete_transaction(id, f)
       /\ UNCHANGED Aux
    \/ /\ resp.op = "idle"
       /\ \E id \in TransactionIdInputs, f \in ReadTransactionFaults : get_transaction(id, f)
       /\ UNCHANGED Aux
    \/ /\ resp.op = "idle"
       /\ \E f \in ReadTransactionFaults : get_all_transactions(f)
       /\ UNCHANGED Aux
    \/ /\ resp.op = "idle"
       /\ nextAccountId <= MaxAccounts
       /\ \E req \in CreateAccountRequests, f \in CreateAccountFaults : create_account(req, f)
       /\ UNCHANGED Aux
    \/ /\ resp.op = "idle"
       /\ \E id \in AccountIdInputs, req \in UpdateAccountRequests, f \in UpdateAccountFaults :
             update_account(id, req, f)
       /\ UNCHANGED Aux
    \/ /\ resp.op = "idle"
       /\ \E id \in AccountIdInputs, f \in DeleteFaults : delete_account(id, f)
       /\ UNCHANGED Aux
    \/ /\ resp.op = "idle"
       /\ \E id \in AccountIdInputs, f \in ReadAccountFaults : get_account(id, f)
       /\ UNCHANGED Aux
    \/ /\ resp.op = "idle"
       /\ \E f \in ReadAccountFaults : get_all_accounts(f)
       /\ UNCHANGED Aux
    \/ /\ resp.op = "idle"
       /\ \E t \in AccountTypeFilterInputs, f \in BalanceFaults : get_balances(t, f)
       /\ UNCHANGED Aux
    \/ /\ resp.op = "idle"
       /\ \E id \in AccountIdInputs, f \in BalanceFaults : get_account_balance(id, f)
       /\ UNCHANGED Aux
    \/ Respond

Spec == Init /\ [][Next]_vars

(***************************************************************************)
(* Properties.  Amounts are compared as integers at the largest scale a    *)
(* request uses; sums are taken without the handlers' own operators.       *)
(***************************************************************************)
\* The largest scale among the amounts of the requests.
AmountScale ==
    LET scales == {o[1].s : o \in (DebitInputs \cup CreditInputs) \ {<<>>}}
    IN  CHOOSE s \in scales : \A t \in scales : t <= s

\* A decimal as an integer number of 10^-AmountScale units.
Units(d) == d.m * Pow10(AmountScale - d.s)

RECURSIVE SumSeq(_)
SumSeq(ns) == IF ns = <<>> THEN 0 ELSE Head(ns) + SumSeq(Tail(ns))

\* The debit and credit sums of a request, an absent amount counting zero.
RequestDebitSum(es) ==
    SumSeq([i \in 1..Len(es) |->
               IF es[i].debit_amount = <<>> THEN 0 ELSE Units(es[i].debit_amount[1])])

RequestCreditSum(es) ==
    SumSeq([i \in 1..Len(es) |->
               IF es[i].credit_amount = <<>> THEN 0 ELSE Units(es[i].credit_amount[1])])

RECURSIVE StoredDebitSum(_)
\* The debit and credit sums of a set of stored entries.
StoredDebitSum(S) ==
    IF S = {} THEN 0
    ELSE LET e == CHOOSE x \in S : TRUE
         IN  Units(ParseAmount(e.debit_amount)) + StoredDebitSum(S \ {e})

RECURSIVE StoredCreditSum(_)
StoredCreditSum(S) ==
    IF S = {} THEN 0
    ELSE LET e == CHOOSE x \in S : TRUE
         IN  Units(ParseAmount(e.credit_amount)) + StoredCreditSum(S \ {e})

\* The rows a submission with generated id tid owns.
TransactionRows(txs, tid) == {t \in txs : t.id = tid}
EntryRows(ents, tid) == {e \in ents : e.transaction_id = tid}

\* A request that passes the three checks made before the store is touched.
PassesChecks(req) ==
    /\ Len(req.reference) \in 1..ReferenceMaxLen
    /\ Len(req.description) \in 1..DescriptionMaxLen
    /\ RequestDebitSum(req.entries) = RequestCreditSum(req.entries)
    /\ Len(req.entries) > 0

Tables == <<accounts, transactions, entries>>

\* C1: create_transaction accepts a request only if its debit sum equals its
\* credit sum; when they differ it answers with a Validation error and
\* writes no row.
C1_BalancedOrRejected ==
    [][resp'.op = "create_transaction" =>
          /\ resp'.kind = "ok" =>
                RequestDebitSum(resp'.req.entries) = RequestCreditSum(resp'.req.entries)
          /\ RequestDebitSum(resp'.req.entries) # RequestCreditSum(resp'.req.entries) =>
                /\ resp'.kind = "ValidationError"
                /\ Tables' = Tables]_vars

\* C1 witness: a well-formed, non-empty request whose sums differ was
\* rejected by the balance check.
C1_Witness ==
    /\ resp.op = "create_transaction"
    /\ RequestDebitSum(resp.req.entries) # RequestCreditSum(resp.req.entries)
    /\ Len(resp.req.entries) = 2
    /\ resp.kind = "ValidationError"
    /\ resp.msg = "Total debits must equal total credits"

\* C2: after any create_transaction call over N entries, failed or not, the
\* store holds the transaction row with all N entry rows, or none of them.
C2_AllOrNothing ==
    resp.op = "create_transaction" =>
        LET rows == TransactionRows(transactions, resp.new_id)
            ents == EntryRows(entries, resp.new_id)
        IN  \/ Cardinality(rows) = 1 /\ Cardinality(ents) = Len(resp.req.entries)
            \/ rows = {} /\ ents = {}

\* C2 witness: the insert of the second entry failed after the transaction
\* row and the first entry were inserted.
C2_Witness ==
    /\ resp.op = "create_transaction"
    /\ resp.fault = Fault("insert_entry", 2)
    /\ resp.kind = "DatabaseError"
    /\ TransactionRows(transactions, resp.new_id) = {}

\* C3 (as claimed): whenever create_transaction answers with an error, the
\* store holds no transaction row and no entry row of that submission.
C3_NoRowsOnError ==
    resp.op = "create_transaction" /\ resp.kind # "ok" =>
        /\ TransactionRows(transactions, resp.new_id) = {}
        /\ EntryRows(entries, resp.new_id) = {}

\* C4: a request with no entries is rejected with a Validation error and
\* nothing is written, whatever its other fields.
C4_EmptyRejected ==
    [][resp'.op = "create_transaction" /\ Len(resp'.req.entries) = 0 =>
          /\ resp'.kind = "ValidationError"
          /\ Tables' = Tables
          /\ nextTransactionId' = nextTransactionId]_vars

\* C4 witness: a well-formed request with no entries was rejected by the
\* emptiness check.
C4_Witness ==
    /\ resp.op = "create_transaction"
    /\ Len(resp.req.entries) = 0
    /\ Len(resp.req.reference) \in 1..ReferenceMaxLen
    /\ resp.kind = "ValidationError"
    /\ resp.msg = "Transaction must have at least one entry"

\* C5: in every reachable state the entries stored for each stored
\* transaction have equal debit and credit sums.
C5_StoredTransactionsBalanced ==
    \A t \in transactions :
        StoredDebitSum(EntryRows(entries, t.id)) = StoredCreditSum(EntryRows(entries, t.id))

\* C5 witness: after an attempt to delete an account that entries name, a
\* transaction is stored whose two entries carry amounts that are not zero.
C5_Witness ==
    /\ resp.op = "delete_account"
    /\ resp.fault = NoFault
    /\ \E e \in entries : e.account_id = resp.id
    /\ \E t \in transactions :
          /\ Cardinality(EntryRows(entries, t.id)) = 2
          /\ StoredDebitSum(EntryRows(entries, t.id)) > 0

\* Some entry of the request names an account that is not stored.
NamesMissingAccount(req, accts) ==
    \E i \in 1..Len(req.entries) : \A a \in accts : a.id # req.entries[i].account_id

\* C6: a request with an entry whose account does not exist is rejected and
\* neither its transaction row nor any of its entry rows is stored.
C6_MissingAccountRejected ==
    resp.op = "create_transaction" /\ NamesMissingAccount(resp.req, accounts) =>
        /\ resp.kind # "ok"
        /\ TransactionRows(transactions, resp.new_id) = {}
        /\ EntryRows(entries, resp.new_id) = {}

\* C6 witness: a request that passes the checks, whose first entry names a
\* stored account and whose second names none, was rejected by the store.
C6_Witness ==
    /\ resp.op = "create_transaction"
    /\ PassesChecks(resp.req)
    /\ Len(resp.req.entries) = 2
    /\ \E a \in accounts : a.id = resp.req.entries[1].account_id
    /\ \A a \in accounts : a.id # resp.req.entries[2].account_id
    /\ resp.msg = "ForeignKeyViolation"

\* C7 (as claimed): when create_transaction fails because an entry names an
\* account that does not exist, the error is NotFound or Validation.
C7_MissingAccountErrorKind ==
    /\ resp.op = "create_transaction"
    /\ PassesChecks(resp.req)
    /\ NamesMissingAccount(resp.req, accounts)
    /\ resp.fault = NoFault
    /\ resp.kind # "ok"
    => resp.kind \in {"NotFound", "ValidationError"}

\* C8: a successful create_transaction returns the transaction this call
\* inserted, with the submitted reference and description, and exactly the
\* submitted entries, each with the code and name of its account.
C8_ReturnsWhatWasSubmitted ==
    resp.op = "create_transaction" /\ resp.kind = "ok" =>
        LET req == resp.req
            n   == Len(req.entries)
        IN  /\ resp.body.id = resp.new_id
            /\ resp.body.reference = req.reference
            /\ resp.body.description = req.description
            /\ Cardinality(resp.body.entries) = n
            /\ \A k \in 1..n :
                  \E e \in resp.body.entries :
                      /\ e.transaction_id = resp.new_id
                      /\ e.account_id = req.entries[k].account_id
                      /\ \E a \in accounts :
                            /\ a.id = e.account_id
                            /\ e.account_code = a.code
                            /\ e.account_name = a.name
                      /\ e.id = <<resp.new_id, k>>
                      /\ e.debit_amount = UnwrapOr(req.entries[k].debit_amount, ZERO)
                      /\ e.credit_amount = UnwrapOr(req.entries[k].credit_amount, ZERO)

\* C8 witness: a second transaction was created, with two entries on two
\* accounts, while another transaction is stored.
C8_Witness ==
    /\ resp.op = "create_transaction"
    /\ resp.kind = "ok"
    /\ Cardinality(transactions) = 2
    /\ Cardinality({e.account_code : e \in resp.body.entries}) = 2

\* C9: delete_transaction of a stored transaction removes its row and all
\* its entries and no entry of another transaction (the store not failing).
C9_DeleteRemovesWholeTransaction ==
    [][/\ resp'.op = "delete_transaction"
       /\ resp'.fault = NoFault
       /\ TransactionRows(transactions, resp'.id) # {}
       => /\ resp'.kind = "ok"
          /\ transactions' = transactions \ TransactionRows(transactions, resp'.id)
          /\ entries' = entries \ EntryRows(entries, resp'.id)
          /\ EntryRows(entries', resp'.id) = {}
          /\ accounts' = accounts]_vars

\* C9 witness: a transaction was deleted and another one, with its entries,
\* is still stored.
C9_Witness ==
    /\ resp.op = "delete_transaction"
    /\ resp.kind = "ok"
    /\ \E t \in transactions : Cardinality(EntryRows(entries, t.id)) = 2

\* C10: delete_transaction with an id that matches no stored transaction
\* answers NotFound and changes no row (the store not failing).
C10_DeleteMissingIsNotFound ==
    [][/\ resp'.op = "delete_transaction"
       /\ resp'.fault = NoFault
       /\ TransactionRows(transactions, resp'.id) = {}
       => /\ resp'.kind = "NotFound"
          /\ Tables' = Tables]_vars

\* C10 witness: NotFound for an id once handed out, while another
\* transaction is stored.
C10_Witness ==
    /\ resp.op = "delete_transaction"
    /\ resp.kind = "NotFound"
    /\ resp.id \in 1..MaxTx
    /\ entries # {}


(***************************************************************************)
(* Balances.                                                               *)
(***************************************************************************)
\* The sign convention in integer units: credit-normal for liability, equity
\* and revenue, debit-normal for every other stored type.
ExpectedBalance(account_type, D, C) ==
    IF account_type \in {"liability", "equity", "revenue"} THEN C - D ELSE D - C

\* The stored entries that name an account.
EntriesNaming(ents, acc_id) == {e \in ents : e.account_id = acc_id}

\* A balance record carries the sums over all entries of its account and the
\* balance its type's convention gives.
FollowsConvention(b, es) ==
    /\ Units(b.debit_total) = StoredDebitSum(es)
    /\ Units(b.credit_total) = StoredCreditSum(es)
    /\ Units(b.balance) = ExpectedBalance(b.account_type, StoredDebitSum(es), StoredCreditSum(es))

\* The five types of the API and a type the API cannot store.
StoredTypeInputs == {"asset", "expense", "liability", "equity", "revenue", "contra"}

\* C11: every balance that get_account_balance or get_balances returns is
\* D - C for an asset or expense account, C - D for a liability, equity or
\* revenue account, and D - C for any other stored type, D and C being the
\* debit and credit sums over all stored entries of the account.  The last
\* conjunct gives every stored account each type in turn, a type the API
\* cannot store among them.
C11_BalanceFollowsTypeConvention ==
    /\ (resp.op = "get_account_balance" /\ resp.kind = "ok")
           => FollowsConvention(resp.body, EntriesNaming(entries, resp.body.account_id))
    /\ (resp.op = "get_balances" /\ resp.kind = "ok")
           => \A i \in DOMAIN resp.body :
                  FollowsConvention(resp.body[i],
                                    EntriesNaming(entries, resp.body[i].account_id))
    /\ resp.op = "get_account_balance"
           => \A a \in accounts : \A t \in StoredTypeInputs :
                  FollowsConvention(AccountBalance([a EXCEPT !.account_type = t],
                                                   AccountEntries(Db, a.id)),
                                    EntriesNaming(entries, a.id))

\* A credited revenue account was asked for its balance, which is positive.
C11_Witness ==
    /\ resp.op = "get_account_balance"
    /\ resp.kind = "ok"
    /\ resp.body.account_type = "revenue"
    /\ Units(resp.body.credit_total) > Units(resp.body.debit_total)
    /\ Units(resp.body.balance) > 0

\* Transaction tid debits account x by a > 0 and credits account y by the
\* same a in two entries, x is an asset and y a revenue account, and no other
\* entry names x or y.
OneSaleBetween(x, y, tid, a) ==
    /\ x.account_type = "asset"
    /\ y.account_type = "revenue"
    /\ a > 0
    /\ tid \in {t.id : t \in transactions}
    /\ EntriesNaming(entries, x.id) \cup EntriesNaming(entries, y.id) = EntryRows(entries, tid)
    /\ Cardinality(EntryRows(entries, tid)) = 2
    /\ \E e \in EntriesNaming(entries, x.id) :
           /\ Units(ParseAmount(e.debit_amount)) = a
           /\ Units(ParseAmount(e.credit_amount)) = 0
    /\ \E e \in EntriesNaming(entries, y.id) :
           /\ Units(ParseAmount(e.debit_amount)) = 0
           /\ Units(ParseAmount(e.credit_amount)) = a

\* The amounts of the submissions, in units.
AmountUnits == {Units(o[1]) : o \in (DebitInputs \cup CreditInputs) \ {<<>>}}

\* C12: when an asset account X and a revenue account Y have no entries but
\* those of one committed transaction that debits X by a and credits Y by a,
\* get_account_balance answers a for X and a for Y.
C12_SaleRaisesBothBalances ==
    (resp.op = "get_account_balance" /\ resp.kind = "ok")
        => \A x \in accounts, y \in accounts, t \in transactions, a \in AmountUnits :
               (resp.id \in {x.id, y.id} /\ OneSaleBetween(x, y, t.id, a))
                   => /\ Units(resp.body.balance) = a
                      /\ Units(GetAccountBalanceOutcome(Db, x.id, NoFault).body.balance) = a
                      /\ Units(GetAccountBalanceOutcome(Db, y.id, NoFault).body.balance) = a

\* The revenue account of such a sale was asked for its balance.
C12_Witness ==
    /\ resp.op = "get_account_balance"
    /\ resp.kind = "ok"
    /\ \E x \in accounts, y \in accounts, t \in transactions, a \in AmountUnits :
           resp.id = y.id /\ OneSaleBetween(x, y, t.id, a)

\* C14: get_account_balance for an id that no stored account has answers
\* NotFound when the store does not fail: neither a balance nor a
\* DatabaseError.
C14_MissingAccountBalanceIsNotFound ==
    (/\ resp.op = "get_account_balance"
     /\ resp.fault = NoFault
     /\ \A a \in accounts : a.id # resp.id)
        => /\ resp.kind = "NotFound"
           /\ resp.body = <<>>

\* NotFound for the balance of an id once handed out, while another account
\* has entries.
C14_Witness ==
    /\ resp.op = "get_account_balance"
    /\ resp.kind = "NotFound"
    /\ resp.id \in 1..MaxAccounts
    /\ entries # {}

\* The stored accounts a filter selects.
Selected(accts, account_type_filter) ==
    {a \in accts : account_type_filter = <<>> \/ a.account_type = account_type_filter[1]}

\* C15: a successful get_balances carries exactly one record for each stored
\* account whose type equals the filter (for each stored account without a
\* filter), each equal to the answer of get_account_balance for that
\* account; when the store does not fail and no account is selected, the
\* answer is successful and empty.
C15_OneRecordPerSelectedAccount ==
    /\ (resp.op = "get_balances" /\ resp.kind = "ok")
           => /\ Len(resp.body) = Cardinality(Selected(accounts, resp.filter))
              /\ {resp.body[i].account_id : i \in DOMAIN resp.body}
                     = {a.id : a \in Selected(accounts, resp.filter)}
              /\ \A i \in DOMAIN resp.body :
                     resp.body[i]
                         = GetAccountBalanceOutcome(Db, resp.body[i].account_id, NoFault).body
    /\ (/\ resp.op = "get_balances"
        /\ resp.fault = NoFault
        /\ Selected(accounts, resp.filter) = {})
           => /\ resp.kind = "ok"
              /\ resp.body = <<>>

\* A filter selected one of two stored accounts, which has entries.
C15_Witness ==
    /\ resp.op = "get_balances"
    /\ resp.kind = "ok"
    /\ resp.filter # <<>>
    /\ Len(resp.body) = 1
    /\ Cardinality(accounts) = 2
    /\ EntriesNaming(entries, resp.body[1].account_id) # {}

\* The four query operations.
QueryOps == {"get_account_balance", "get_balances", "get_transaction", "get_all_transactions"}

\* C17: get_account_balance, get_balances, get_transaction and
\* get_all_transactions leave every account, transaction and entry row as it
\* was, whether they succeed or fail.
C17_QueriesAreReadOnly ==
    [][resp'.op \in QueryOps => Tables' = Tables]_vars

\* A query failed at the store while all three tables had rows.
C17_Witness ==
    /\ resp.op \in QueryOps
    /\ resp.kind = "DatabaseError"
    /\ accounts # {}
    /\ transactions # {}
    /\ entries # {}

(***************************************************************************)
(* The service with a record of what it answered (SpecHist).               *)
(*                                                                         *)
(* hist.last[id]  the last ok answer of get_account_balance for id since   *)
(*                the entries last changed, with the account row it was    *)
(*                computed from;                                           *)
(* hist.listed    the same for get_balances, with its filter and the       *)
(*                accounts;                                                *)
(* hist.prev      at an ok balance query, the earlier answer it repeats;   *)
(* hist.pending[tid]  for a stored transaction, the balance answers and    *)
(*                the types of the accounts it names as they were before   *)
(*                it was submitted, and whether no other transaction was   *)
(*                committed or deleted since;                              *)
(* hist.undone    at a delete_transaction, what was pending for the        *)
(*                deleted transaction.                                     *)
(***************************************************************************)
\* What get_account_balance answers on a store that does not fail: the kind
\* and, when ok, the balance in units.
BalanceAnswer(db, id) ==
    LET Of(out) == IF out.kind = "ok" THEN <<"ok", Units(out.body.balance)>> ELSE <<out.kind>>
    IN  Of(GetAccountBalanceOutcome(db, id, NoFault))

TxIds(db) == {t.id : t \in db.transactions}

\* The ids of the accounts that the entries of a transaction name.
Touched(db, tid) == {e.account_id : e \in EntryRows(db.entries, tid)}

\* The stored type of an account.
TypeOf(db, id) == FindAccount(db, id).val.account_type

PendingAfter(h, db, after) ==
    [tid \in 1..MaxTx |->
        IF tid \in TxIds(after) \ TxIds(db)
        THEN <<[before |-> [a \in Touched(after, tid) |-> BalanceAnswer(db, a)],
                types  |-> [a \in Touched(after, tid) |-> TypeOf(db, a)],
                alone  |-> TRUE]>>
        ELSE IF tid \notin TxIds(after) THEN <<>>
        ELSE IF h.pending[tid] # <<>> /\ TxIds(after) # TxIds(db)
        THEN <<[h.pending[tid][1] EXCEPT !.alone = FALSE]>>
        ELSE h.pending[tid]]

LastAfter(h, db, after, r) ==
    [id \in 1..MaxAccounts |->
        IF after.entries # db.entries THEN <<>>
        ELSE IF r.op = "get_account_balance" /\ r.kind = "ok" /\ r.id = id
        THEN <<[body |-> r.body, accounts |-> {a \in after.accounts : a.id = id}]>>
        ELSE h.last[id]]

ListedAfter(h, db, after, r) ==
    IF after.entries # db.entries THEN <<>>
    ELSE IF r.op = "get_balances" /\ r.kind = "ok"
    THEN <<[filter |-> r.filter, body |-> r.body, accounts |-> after.accounts]>>
    ELSE h.listed

PrevAfter(h, db, after, r) ==
    IF after.entries # db.entries THEN <<>>
    ELSE IF r.op = "get_account_balance" /\ r.kind = "ok" /\ r.id \in DOMAIN h.last
    THEN h.last[r.id]
    ELSE IF r.op = "get_balances" /\ r.kind = "ok"
             /\ h.listed # <<>> /\ h.listed[1].filter = r.filter
    THEN h.listed
    ELSE <<>>

UndoneAfter(h, db, after, r) ==
    IF r.op = "delete_transaction" /\ r.id \in TxIds(db) \ TxIds(after)
    THEN h.pending[r.id]
    ELSE <<>>

\* The record after a handler took the tables from db to after and answered r.
HistAfter(h, db, after, r) ==
    [last    |-> LastAfter(h, db, after, r),
     listed  |-> ListedAfter(h, db, after, r),
     prev    |-> PrevAfter(h, db, after, r),
     pending |-> PendingAfter(h, db, after),
     undone  |-> UndoneAfter(h, db, after, r)]

Observe ==
    /\ hist' = HistAfter(hist, Db, Db', resp')
    /\ UNCHANGED <<run, pool>>

\* Sales of 1.0 against 1 between the accounts once handed out.
SaleRequests ==
    {[reference |-> ref, description |-> "d",
      entries |-> <<[account_id |-> x, debit_amount |-> <<Dec(10, 1)>>, credit_amount |-> <<>>],
                    [account_id |-> y, debit_amount |-> <<>>, credit_amount |-> <<Dec(1, 0)>>]>>] :
        ref \in {"TXN-1", Repeat("r", ReferenceMaxLen)}, x \in 1..MaxAccounts, y \in 1..MaxAccounts}

\* The response leaves; what was noted for the answer alone is dropped.
RespondHist ==
    /\ resp.op # "idle"
    /\ resp' = Idle
    /\ hist' = [hist EXCEPT !.prev = <<>>, !.undone = <<>>]
    /\ UNCHANGED <<accounts, transactions, entries, nextAccountId, nextTransactionId>>
    /\ UNCHANGED <<run, pool>>

\* The handlers of Next on a store that does not fail, the observer noting
\* each answer.
NextHist ==
    \/ /\ resp.op = "idle"
       /\ nextTransactionId <= MaxTx
       /\ \E req \in SaleRequests : create_transaction(req, NoFault)
       /\ Observe
    \/ /\ resp.op = "idle"
       /\ \E id \in TransactionIdInputs : delete_transaction(id, NoFault)
       /\ Observe
    \/ /\ resp.op = "idle"
       /\ nextAccountId <= MaxAccounts
       /\ \E req \in CreateAccountRequests : create_account(req, NoFault)
       /\ Observe
    \/ /\ resp.op = "idle"
       /\ \E id \in AccountIdInputs, req \in UpdateAccountRequests :
             update_account(id, req, NoFault)
       /\ Observe
    \/ /\ resp.op = "idle"
       /\ \E id \in AccountIdInputs : delete_account(id, NoFault)
       /\ Observe
    \/ /\ resp.op = "idle"
       /\ \E t \in AccountTypeFilterInputs : get_balances(t, NoFault)
       /\ Observe
    \/ /\ resp.op = "idle"
       /\ \E id \in AccountIdInputs : get_account_balance(id, NoFault)
       /\ Observe
    \/ RespondHist

SpecHist == Init /\ [][NextHist]_vars

\* A transaction was just deleted, and between its submission and its
\* deletion no other transaction was committed or deleted.
DeletedAlone ==
    /\ resp.op = "delete_transaction"
    /\ hist.undone # <<>>
    /\ hist.undone[1].alone

\* C13 as stated: after a committed transaction is deleted, with no other
\* submission or deletion in between, every account it touched has the
\* balance it had before the transaction was submitted.
C13_DeleteRestoresBalances ==
    DeletedAlone
        => \A a \in DOMAIN hist.undone[1].before :
               BalanceAnswer(Db, a) = hist.undone[1].before[a]

\* C13, amended: after a committed transaction is deleted, with no other
\* submission or deletion in between, every account it touched whose type is
\* the one it had at the submission has the balance it had before the
\* transaction was submitted.
C13_DeleteRestoresBalancesOfSameType ==
    DeletedAlone
        => \A a \in DOMAIN hist.undone[1].before :
               TypeOf(Db, a) = hist.undone[1].types[a]
                   => BalanceAnswer(Db, a) = hist.undone[1].before[a]

\* A transaction was deleted that had touched an account of unchanged type
\* whose balance before the submission was not zero, another transaction
\* staying stored.
C13_Witness ==
    /\ DeletedAlone
    /\ resp.kind = "ok"
    /\ transactions # {}
    /\ \E a \in DOMAIN hist.undone[1].before :
           /\ TypeOf(Db, a) = hist.undone[1].types[a]
           /\ hist.undone[1].before[a][1] = "ok"
           /\ hist.undone[1].before[a][2] # 0

\* The computed part of a balance record, in units.
Figures(b) == <<b.account_id, Units(b.debit_total), Units(b.credit_total), Units(b.balance)>>

\* An ok balance query repeats an earlier one (same account, or same filter)
\* and the entries have not changed in between.
RepeatsAccountQuery ==
    resp.op = "get_account_balance" /\ resp.kind = "ok" /\ hist.prev # <<>>

RepeatsListQuery ==
    resp.op = "get_balances" /\ resp.kind = "ok" /\ hist.prev # <<>>

\* C16 as stated: a balance query repeated against an unchanged entry set
\* returns, for every account of both answers, the same totals and the same
\* balance as before.
C16_RepeatedQueriesAgree ==
    /\ RepeatsAccountQuery => Figures(resp.body) = Figures(hist.prev[1].body)
    /\ RepeatsListQuery
           => \A i \in DOMAIN resp.body : \A j \in DOMAIN hist.prev[1].body :
                  resp.body[i].account_id = hist.prev[1].body[j].account_id
                      => Figures(resp.body[i]) = Figures(hist.prev[1].body[j])

\* C16, amended: a balance query repeated against an unchanged entry set and
\* unchanged account rows (the row of the account asked for; every row for
\* get_balances) returns the identical result.
C16_RepeatedQueriesAgreeOnSameAccounts ==
    /\ (RepeatsAccountQuery /\ hist.prev[1].accounts = {a \in accounts : a.id = resp.id})
           => resp.body = hist.prev[1].body
    /\ (RepeatsListQuery /\ hist.prev[1].accounts = accounts)
           => resp.body = hist.prev[1].body

\* The balance of an account that has entries was asked for again, the other
\* account having been updated in between.
C16_Witness ==
    /\ RepeatsAccountQuery
    /\ hist.prev[1].accounts = {a \in accounts : a.id = resp.id}
    /\ Units(resp.body.balance) # 0
    /\ hist.last[resp.id] # <<>>
    /\ \E a \in accounts : a.id # resp.id /\ a.code = "1000" /\ a.name = "Sales"

(***************************************************************************)
(* Invocations under way at once (SpecConc).                               *)
(*                                                                         *)
(* The workers of HttpServer serve requests in parallel, each handler on   *)
(* its own pooled connection.  A step is one SQL statement: a statement    *)
(* outside conn.transaction is its own unit and sees what is committed     *)
(* when it runs; the statements of conn.transaction become visible to the  *)
(* other connections at COMMIT.  While one connection has written inside   *)
(* an open transaction, a write of another connection fails (the database  *)
(* is locked).                                                             *)
(*                                                                         *)
(* run.w  a create_transaction;  run.d  a delete_transaction;              *)
(* run.r  a get_transaction;     run.b  a get_balances;                    *)
(* run.lock  the connection with an open write transaction;                *)
(* run.committed[tid]  the ids of the entries transaction tid was          *)
(*                committed with;                                          *)
(* run.seen  the committed tables since get_balances loaded the accounts;  *)
(* run.deleted  whether a transaction was deleted since.                   *)
(***************************************************************************)
\* The accounts and the sale that the directory and create_transaction leave
\* when asked for them one after the other.
CashAccount == NewAccount(1, [code |-> "1000", name |-> "Cash", account_type |-> "Asset"])
SalesAccount == NewAccount(2, [code |-> "2000", name |-> "Sales", account_type |-> "Revenue"])

Sale(ref) ==
    [reference |-> ref, description |-> "d",
     entries |-> <<[account_id |-> 1, debit_amount |-> <<Dec(10, 1)>>, credit_amount |-> <<>>],
                   [account_id |-> 2, debit_amount |-> <<>>, credit_amount |-> <<Dec(1, 0)>>]>>]

StoreWithOneSale ==
    TransactionBody([accounts |-> {CashAccount, SalesAccount}, transactions |-> {}, entries |-> {}],
                    1, Sale("TXN-1"), NoFault).db

\* The requests of the invocations: a second sale under a new or under the
\* stored reference; the ids of the stored and of the new transaction.
ConcRequests == {Sale("TXN-1"), Sale("TXN-2")}
ConcIds == 1..MaxTx

NotStarted == [pc |-> "start"]

InitConc ==
    /\ accounts = StoreWithOneSale.accounts
    /\ transactions = StoreWithOneSale.transactions
    /\ entries = StoreWithOneSale.entries
    /\ nextAccountId = 3
    /\ nextTransactionId = 2
    /\ resp = Idle
    /\ hist = NoHistory
    /\ pool = <<>>
    /\ run = [w |-> NotStarted, d |-> NotStarted, r |-> NotStarted, b |-> NotStarted,
              lock |-> "none",
              committed |-> [tid \in ConcIds |->
                                {e.id : e \in EntryRows(StoreWithOneSale.entries, tid)}],
              seen |-> {},
              deleted |-> FALSE]

\* A worker has ended with this answer.
Done(kind, body) == [pc |-> "done", kind |-> kind, body |-> body]

\* The committed tables a get_balances under way may have read from.
SeenAfter(db) == IF run.b.pc = "scan" THEN run.seen \cup {db} ELSE run.seen

ConcFrame == UNCHANGED <<nextAccountId, resp, hist, pool>>

\* create_transaction, the checks to the last INSERT of the closure: the
\* rows are written inside the open transaction.
W_Insert(req) ==
    /\ run.w.pc = "start"
    /\ run.lock = "none"
    /\ LET Then(r) ==
               IF r.ok
               THEN run' = [run EXCEPT !.w = [pc |-> "inserted", req |-> req, buf |-> r.db],
                                       !.lock = "w"]
               ELSE run' = [run EXCEPT !.w = Done(FromDieselError(r.err), <<>>)]
       IN  Then(TransactionBody(Db, nextTransactionId, req, NoFault))
    /\ nextTransactionId' = nextTransactionId + 1
    /\ UNCHANGED <<accounts, transactions, entries>>
    /\ ConcFrame

\* COMMIT of conn.transaction: the rows become visible.
W_Commit ==
    /\ run.w.pc = "inserted"
    /\ Store(run.w.buf)
    /\ run' = [run EXCEPT !.w = [pc |-> "committed", req |-> run.w.req],
                          !.lock = "none",
                          !.committed =
                              [tid \in ConcIds |->
                                  IF tid \in TxIds(run.w.buf) \ TxIds(Db)
                                  THEN {e.id : e \in EntryRows(run.w.buf.entries, tid)}
                                  ELSE run.committed[tid]],
                          !.seen = SeenAfter(run.w.buf)]
    /\ UNCHANGED nextTransactionId
    /\ ConcFrame

\* The read-back, first statement: the transaction row by its reference.
W_ReadTransaction ==
    /\ run.w.pc = "committed"
    /\ LET Then(matches) ==
               IF matches = {}
               THEN run' = [run EXCEPT !.w = Done(FromDieselError("NotFound"), <<>>)]
               ELSE run' = [run EXCEPT !.w = [pc |-> "row", row |-> FirstRow(matches)]]
       IN  Then({t \in transactions : t.reference = run.w.req.reference})
    /\ UNCHANGED <<accounts, transactions, entries, nextTransactionId>>
    /\ ConcFrame

\* The read-back, second statement: the entries joined with their accounts.
W_ReadEntries ==
    /\ run.w.pc = "row"
    /\ run' = [run EXCEPT !.w = Done("ok", TransactionWithEntries(
                                               run.w.row, JoinEntriesAccounts(Db, run.w.row.id)))]
    /\ UNCHANGED <<accounts, transactions, entries, nextTransactionId>>
    /\ ConcFrame

\* delete_transaction: one DELETE, which fails while another connection has
\* an open write transaction.
D_Delete(trans_id) ==
    /\ run.d.pc = "start"
    /\ IF run.lock # "none"
       THEN /\ run' = [run EXCEPT !.d = Done(FromDieselError("StorageFailure"), <<>>)]
            /\ UNCHANGED <<accounts, transactions, entries>>
       ELSE LET Then(out) ==
                    /\ Store(out.db)
                    /\ run' = [run EXCEPT !.d = Done(out.kind, out.body),
                                          !.seen = SeenAfter(out.db),
                                          !.deleted = (out.kind = "ok")]
            IN  Then(DeleteTransactionOutcome(Db, trans_id, NoFault))
    /\ UNCHANGED nextTransactionId
    /\ ConcFrame

\* get_transaction, first statement: the transaction row by its id.
R_ReadTransaction(trans_id) ==
    /\ run.r.pc = "start"
    /\ LET Then(matches) ==
               IF matches = {}
               THEN run' = [run EXCEPT !.r = Done(FromDieselError("NotFound"), <<>>)]
               ELSE run' = [run EXCEPT !.r = [pc |-> "row", row |-> FirstRow(matches)]]
       IN  Then({t \in transactions : t.id = trans_id})
    /\ UNCHANGED <<accounts, transactions, entries, nextTransactionId>>
    /\ ConcFrame

\* get_transaction, second statement: the entries joined with their accounts.
R_ReadEntries ==
    /\ run.r.pc = "row"
    /\ run' = [run EXCEPT !.r = Done("ok", TransactionWithEntries(
                                               run.r.row, JoinEntriesAccounts(Db, run.r.row.id)))]
    /\ UNCHANGED <<accounts, transactions, entries, nextTransactionId>>
    /\ ConcFrame

RECURSIVE LoadOrder(_)
\* The rows of a load, in the order of their creation.
LoadOrder(rows) ==
    IF rows = {} THEN <<>>
    ELSE <<FirstRow(rows)>> \o LoadOrder(rows \ {FirstRow(rows)})

\* get_balances, first statement: the accounts.
B_LoadAccounts(account_type_filter) ==
    /\ run.b.pc = "start"
    /\ run' = [run EXCEPT !.b = [pc |-> "scan", balances |-> <<>>,
                                 todo |-> LoadOrder(FilterAccounts(accounts, account_type_filter))],
                          !.seen = {Db},
                          !.deleted = FALSE]
    /\ UNCHANGED <<accounts, transactions, entries, nextTransactionId>>
    /\ ConcFrame

\* get_balances, one turn of the loop: the entries of the next account are
\* loaded and its balance is pushed.
B_LoadEntries ==
    /\ run.b.pc = "scan"
    /\ run.b.todo # <<>>
    /\ LET Push(a) ==
               run' = [run EXCEPT !.b.todo = Tail(@),
                                  !.b.balances =
                                      Append(@, AccountBalance(a, AccountEntries(Db, a.id)))]
       IN  Push(Head(run.b.todo))
    /\ UNCHANGED <<accounts, transactions, entries, nextTransactionId>>
    /\ ConcFrame

\* get_balances, after the loop: the balances are answered.
B_Answer ==
    /\ run.b.pc = "scan"
    /\ run.b.todo = <<>>
    /\ run' = [run EXCEPT !.b = Done("ok", run.b.balances)]
    /\ UNCHANGED <<accounts, transactions, entries, nextTransactionId>>
    /\ ConcFrame

NextConc ==
    \/ \E req \in ConcRequests : W_Insert(req)
    \/ W_Commit
    \/ W_ReadTransaction
    \/ W_ReadEntries
    \/ \E id \in ConcIds : D_Delete(id)
    \/ \E id \in ConcIds : R_ReadTransaction(id)
    \/ R_ReadEntries
    \/ \E t \in AccountTypeFilterInputs : B_LoadAccounts(t)
    \/ B_LoadEntries
    \/ B_Answer

SpecConc == InitConc /\ [][NextConc]_vars

\* C18: a reader of a single transaction (get_transaction, or the read-back
\* of create_transaction) that answers a transaction answers it with all the
\* entries it was committed with.
C18_ReaderSeesWholeTransaction ==
    /\ (run.r.pc = "done" /\ run.r.kind = "ok")
           => {e.id : e \in run.r.body.entries} = run.committed[run.r.body.id]
    /\ (run.w.pc = "done" /\ run.w.kind = "ok")
           => {e.id : e \in run.w.body.entries} = run.committed[run.w.body.id]

\* C19: a get_balances under way while transactions are committed (and none
\* is deleted) answers the balances of one committed state of the tables.
C19_ListingOfOneCommittedState ==
    (run.b.pc = "done" /\ ~run.deleted)
        => \E db \in run.seen :
               \E t \in AccountTypeFilterInputs :
                   run.b.body = Balances(db, FilterAccounts(db.accounts, t))

(***************************************************************************)
(* The connection pool (SpecPool).                                         *)
(*                                                                         *)
(* Every handler calls pool.get() once, after the checks that need no      *)
(* connection, and keeps the PooledConnection in a local that is dropped   *)
(* when the handler returns, by Ok or by `?`.  pool.pc[i] is where         *)
(* invocation i stands, pool.held[i] the connections it has out.  The      *)
(* invocations arrive one after the other and end in any order.            *)
(***************************************************************************)
\* Pool::builder().max_size(15)
PoolMaxSize == 15

\* One invocation more than the pool has connections.
Invocations == 1..(PoolMaxSize + 1)

RECURSIVE HeldBy(_, _)
\* The connections the invocations of a set have out.
HeldBy(p, S) ==
    IF S = {} THEN 0
    ELSE LET Add(i) == p.held[i] + HeldBy(p, S \ {i})
         IN  Add(CHOOSE i \in S : TRUE)

InUse(p) == HeldBy(p, Invocations)

\* A pool that hands out connections without end.
PoolHasRoomAlways(p) == TRUE

\* The pool hands out a connection while fewer than max_size are out.
PoolHasRoom(p) == InUse(p) < PoolMaxSize

InitPool ==
    /\ accounts = {}
    /\ transactions = {}
    /\ entries = {}
    /\ nextAccountId = 1
    /\ nextTransactionId = 1
    /\ resp = Idle
    /\ hist = NoHistory
    /\ run = <<>>
    /\ pool = [pc |-> [i \in Invocations |-> "new"], held |-> [i \in Invocations |-> 0]]

\* Invocation i has arrived: the earlier ones have.
Arrives(i) ==
    /\ pool.pc[i] = "new"
    /\ \A j \in Invocations : j < i => pool.pc[j] # "new"

PoolFrame ==
    UNCHANGED <<accounts, transactions, entries, nextAccountId, nextTransactionId, resp,
                hist, run>>

\* The request fails a check that precedes pool.get() (validate(), the
\* balance of debits and credits, the empty entry list): the handler returns
\* without a connection.
RejectBeforePool(i) ==
    /\ Arrives(i)
    /\ pool' = [pool EXCEPT !.pc[i] = "done"]
    /\ PoolFrame

\* let mut conn = pool.get()?: a connection, or the error of a pool that has
\* none left when the wait is over, with which the handler returns.
PoolGet(i) ==
    /\ Arrives(i)
    /\ IF PoolHasRoom(pool)
       THEN pool' = [pool EXCEPT !.pc[i] = "holding", !.held[i] = @ + 1]
       ELSE pool' = [pool EXCEPT !.pc[i] = "done"]
    /\ PoolFrame

\* The handler returns, by Ok or by `?`: conn goes out of scope and is back
\* in the pool.
Return(i) ==
    /\ pool.pc[i] = "holding"
    /\ pool' = [pool EXCEPT !.pc[i] = "done", !.held[i] = @ - 1]
    /\ PoolFrame

NextPool ==
    \/ \E i \in Invocations : RejectBeforePool(i)
    \/ \E i \in Invocations : PoolGet(i)
    \/ \E i \in Invocations : Return(i)

SpecPool == InitPool /\ [][NextPool]_vars

\* C20: every invocation has at most one connection out, has none out when
\* it has ended (also when it ended before pool.get()), and the connections
\* out at the same time never exceed the pool maximum of 15.
C20_OneConnectionPerInvocation ==
    /\ \A i \in Invocations : pool.held[i] <= 1
    /\ \A i \in Invocations : pool.pc[i] \in {"new", "done"} => pool.held[i] = 0
    /\ InUse(pool) <= PoolMaxSize

\* All connections are out and the invocation that came last has ended
\* without one.
C20_Witness ==
    /\ InUse(pool) = PoolMaxSize
    /\ \E i \in Invocations : pool.pc[i] = "done" /\ \A j \in Invocations \ {i} : pool.pc[j] = "holding"

(***************************************************************************)
(* The request timeout around create_transaction.  RequestTimeoutMiddleware *)
(* wraps the service future in tokio::time::timeout, which polls the       *)
(* wrapped future first and the deadline only when that future is pending. *)
(* The handler has no await of its own: the one point where the wrapped    *)
(* future is pending is the reading of the request body by the extractor.  *)
(* The statements of the handler are steps here; the deadline may pass     *)
(* between any two of them.                                                *)
(***************************************************************************)
TimeoutRequests ==
    {Sale("TXN-1"), Sale("TXN-2"),
     [Sale("TXN-2") EXCEPT !.entries[2].account_id = 0],
     [Sale("TXN-2") EXCEPT !.entries[2].credit_amount = <<>>]}

TimeoutFaults == {NoFault, Fault("pool", 0), Fault("insert_entry", 2), Fault("commit", 0)}

\* No request is in the service.
NoRequest == [pc |-> "idle", elapsed |-> FALSE, timedOut |-> FALSE,
              whole |-> [tid \in 1..MaxTx |-> 0]]

InitTimeout ==
    /\ accounts = {CashAccount, SalesAccount}
    /\ transactions = {}
    /\ entries = {}
    /\ nextAccountId = 3
    /\ nextTransactionId = 1
    /\ resp = Idle
    /\ hist = NoHistory
    /\ pool = <<>>
    /\ run = NoRequest

TimeoutFrame == UNCHANGED <<nextAccountId, hist, pool>>

\* RequestTimeoutMiddleware::call: the service future is wrapped and awaited;
\* the extractor waits for the body of the request.
T_Call(req, fault) ==
    /\ run.pc = "idle"
    /\ nextTransactionId <= MaxTx
    /\ run' = [pc |-> "extract", req |-> req, fault |-> fault, elapsed |-> FALSE,
               timedOut |-> FALSE, whole |-> run.whole]
    /\ UNCHANGED <<accounts, transactions, entries, nextTransactionId, resp>>
    /\ TimeoutFrame

\* The timeout_duration passes while the request is in the service.
T_Elapse ==
    /\ run.pc # "idle"
    /\ ~run.elapsed
    /\ run' = [run EXCEPT !.elapsed = TRUE]
    /\ UNCHANGED <<accounts, transactions, entries, nextTransactionId, resp>>
    /\ TimeoutFrame

\* timeout(..) yields Err: the wrapped future is pending and the deadline has
\* passed; the future is dropped and the caller gets ErrorRequestTimeout.
T_Fire ==
    /\ run.pc = "extract"
    /\ run.elapsed
    /\ resp' = [op |-> "create_transaction", req |-> run.req, fault |-> NoFault,
                kind |-> "RequestTimeout", msg |-> "Request timeout", body |-> <<>>]
    /\ run' = [NoRequest EXCEPT !.timedOut = TRUE, !.whole = run.whole]
    /\ UNCHANGED <<accounts, transactions, entries, nextTransactionId>>
    /\ TimeoutFrame

\* The body has arrived and the handler runs: validate, the two checks on the
\* entries, pool.get, Uuid::new_v4 and the opening of conn.transaction.
T_Handler ==
    /\ run.pc = "extract"
    /\ LET Then(r) ==
               IF ~r.generated
               THEN /\ run' = [run EXCEPT !.pc = "answer"]
                    /\ resp' = [op |-> "pending", kind |-> r.out.kind, msg |-> r.out.msg,
                                body |-> r.out.body]
                    /\ UNCHANGED nextTransactionId
               ELSE /\ run' = [pc |-> "body", req |-> run.req, fault |-> run.fault,
                               elapsed |-> run.elapsed, timedOut |-> FALSE,
                               tid |-> nextTransactionId, k |-> 0, buf |-> Db,
                               whole |-> [run.whole EXCEPT ![nextTransactionId] =
                                                               Len(run.req.entries)]]
                    /\ nextTransactionId' = nextTransactionId + 1
                    /\ UNCHANGED resp
       IN  Then(CreateTransactionOutcome(Db, nextTransactionId, run.req, run.fault))
    /\ UNCHANGED <<accounts, transactions, entries>>
    /\ TimeoutFrame

\* A statement of the closure failed: conn.transaction rolls back and the
\* handler returns the error.
Failed(r) ==
    /\ Store(r.db)
    /\ run' = [run EXCEPT !.pc = "answer"]
    /\ resp' = [op |-> "pending", kind |-> FromDieselError(r.err), msg |-> r.err,
                body |-> <<>>]

\* diesel::insert_into(transactions::table) inside the open transaction.
T_InsertTransaction ==
    /\ run.pc = "body"
    /\ run.k = 0
    /\ LET Then(r) ==
               IF r.ok
               THEN /\ run' = [run EXCEPT !.k = 1, !.buf = r.db]
                    /\ UNCHANGED <<accounts, transactions, entries, resp>>
               ELSE Failed(ConnTransaction(Db, r, run.fault))
       IN  Then(InsertTransaction(run.buf, NewTransaction(run.tid, run.req)))
    /\ UNCHANGED nextTransactionId
    /\ TimeoutFrame

\* diesel::insert_into(entries::table) for the k-th entry of the request.
T_InsertEntry ==
    /\ run.pc = "body"
    /\ run.k \in 1..Len(run.req.entries)
    /\ LET Then(r) ==
               IF r.ok
               THEN /\ run' = [run EXCEPT !.k = run.k + 1, !.buf = r.db]
                    /\ UNCHANGED <<accounts, transactions, entries, resp>>
               ELSE Failed(ConnTransaction(Db, r, run.fault))
       IN  Then(IF run.fault = Fault("insert_entry", run.k)
                THEN StmtErr("StorageFailure", run.buf)
                ELSE InsertEntry(run.buf, NewEntry(run.tid, run.k, run.req.entries[run.k])))
    /\ UNCHANGED nextTransactionId
    /\ TimeoutFrame

\* The closure returns Ok: COMMIT, then get_transaction_with_entries.
T_Commit ==
    /\ run.pc = "body"
    /\ run.k = Len(run.req.entries) + 1
    /\ LET Read(r, q) ==
               /\ Store(r.db)
               /\ run' = [run EXCEPT !.pc = "answer"]
               /\ resp' = [op |-> "pending",
                           kind |-> IF q.ok THEN "ok" ELSE FromDieselError(q.err),
                           msg |-> IF q.ok THEN "" ELSE q.err,
                           body |-> IF q.ok THEN q.val ELSE <<>>]
           Then(r) ==
               IF r.ok
               THEN Read(r, get_transaction_with_entries(r.db, run.req.reference, run.fault))
               ELSE Failed(r)
       IN  Then(ConnTransaction(Db, StmtOk(run.buf), run.fault))
    /\ UNCHANGED nextTransactionId
    /\ TimeoutFrame

\* The wrapped future is ready: timeout(..) yields Ok(response), whether or
\* not the deadline has passed meanwhile.
T_Return ==
    /\ run.pc = "answer"
    /\ resp' = [op |-> "create_transaction", req |-> run.req, fault |-> run.fault,
                kind |-> resp.kind, msg |-> resp.msg, body |-> resp.body]
    /\ run' = [NoRequest EXCEPT !.whole = run.whole]
    /\ UNCHANGED <<accounts, transactions, entries, nextTransactionId>>
    /\ TimeoutFrame

NextTimeout ==
    \/ \E req \in TimeoutRequests, fault \in TimeoutFaults : T_Call(req, fault)
    \/ T_Elapse
    \/ T_Fire
    \/ T_Handler
    \/ T_InsertTransaction
    \/ T_InsertEntry
    \/ T_Commit
    \/ T_Return

SpecTimeout == InitTimeout /\ [][NextTimeout]_vars

\* C21: when the request timeout fires for a create_transaction request the
\* caller gets a failure and the tables are left as they were, and at no
\* point of any request, whether or not its deadline has passed, does the
\* store hold a transaction row with fewer entry rows than its request had.
C21_TimeoutLeavesNoHalfCommit ==
    /\ [](\A t \in transactions :
              Cardinality(EntryRows(entries, t.id)) = run.whole[t.id])
    /\ [][run'.timedOut /\ ~run.timedOut =>
              /\ resp'.kind \notin {"ok"}
              /\ resp'.op = "create_transaction"
              /\ Tables' = Tables]_vars

\* The timeout has fired for a request that came after a committed one.
C21_Witness ==
    /\ run.timedOut
    /\ resp.kind = "RequestTimeout"
    /\ transactions # {}

\* The deadline passed in the middle of the closure, after the transaction
\* row and before the last entry row.
C21_DeadlineInsideClosure ==
    /\ run.pc = "body"
    /\ run.elapsed
    /\ run.k \in 1..Len(run.req.entries)


(***************************************************************************)
(* References, amounts and account types of the stored rows.               *)
(***************************************************************************)
\* The stored transactions that carry this reference.
WithReference(txs, ref) == {t \in txs : t.reference = ref}

\* C22: no two stored transactions share a reference, and a create_transaction
\* whose reference is that of a stored transaction fails and leaves the
\* three tables as they were.
C22_ReferencesStayUnique ==
    /\ [](\A t, u \in transactions : t.reference = u.reference => t = u)
    /\ [][resp'.op = "create_transaction" /\ resp.op = "idle"
          /\ WithReference(transactions, resp'.req.reference) # {}
          => /\ resp'.kind # "ok"
             /\ Tables' = Tables]_vars

\* A structurally valid, balanced submission was refused by the store
\* because a stored transaction has its reference.
C22_Witness ==
    /\ resp.op = "create_transaction"
    /\ PassesChecks(resp.req)
    /\ resp.msg = "UniqueViolation"
    /\ resp.kind = "DatabaseError"
    /\ Cardinality(WithReference(transactions, resp.req.reference)) = 1


\* Submissions whose amounts carry a sign: Option<Decimal> deserializes any
\* decimal, and CreateEntryRequest validates only the length of its
\* description.
SignedAmounts == Opt({Dec(0 - 1, 0), Dec(10, 1)})

SignedEntries ==
    [account_id : {1, 2}, debit_amount : SignedAmounts, credit_amount : SignedAmounts]

SignedRequests ==
    [reference : {"TXN-1", "TXN-2"}, description : {"d"},
     entries : {<<e>> : e \in SignedEntries}
               \cup {<<e, f>> : e \in {x \in SignedEntries : x.account_id = 1},
                                f \in {x \in SignedEntries : x.account_id = 2}}]

\* The directory holds the two accounts; no transaction is stored.
InitAmounts ==
    /\ accounts = {CashAccount, SalesAccount}
    /\ transactions = {}
    /\ entries = {}
    /\ nextAccountId = 3
    /\ nextTransactionId = 1
    /\ resp = Idle
    /\ hist = NoHistory
    /\ run = <<>>
    /\ pool = <<>>

NextAmounts ==
    \/ /\ resp.op = "idle"
       /\ nextTransactionId <= MaxTx
       /\ \E req \in SignedRequests : create_transaction(req, NoFault)
       /\ UNCHANGED Aux
    \/ /\ resp.op = "idle"
       /\ \E id \in 1..MaxTx : delete_transaction(id, NoFault)
       /\ UNCHANGED Aux
    \/ /\ resp.op = "idle"
       /\ \E id \in 1..MaxAccounts : get_account_balance(id, NoFault)
       /\ UNCHANGED Aux
    \/ Respond

SpecAmounts == InitAmounts /\ [][NextAmounts]_vars

\* C23: every stored entry has a debit amount >= 0 and a credit amount >= 0.
C23_StoredAmountsNonNegative ==
    \A e \in entries :
        /\ ParseAmount(e.debit_amount).m >= 0
        /\ ParseAmount(e.credit_amount).m >= 0


(***************************************************************************)
(* Account types at the boundary of the service.  The body of a request is *)
(* JSON text; web::Json<T> deserializes it before the handler is called    *)
(* and answers 400 itself when that fails.  The two conversions between    *)
(* AccountType and String are applied to texts and types of their own.     *)
(***************************************************************************)
\* A deserializer that falls back on the conversion from String.
DeserializeAccountTypeCoercing(text) == <<AccountTypeFromString(text)>>

\* #[derive(Deserialize)] enum AccountType with #[serde(rename = ..)]: the
\* variant a JSON string names, or no variant (a deserialization error).
DeserializeAccountType(text) ==
    CASE text = "asset"     -> <<"Asset">>
      [] text = "liability" -> <<"Liability">>
      [] text = "equity"    -> <<"Equity">>
      [] text = "revenue"   -> <<"Revenue">>
      [] text = "expense"   -> <<"Expense">>
      [] OTHER              -> <<>>

\* web::Json<CreateAccountRequest>: the request, or <<>> for a body that does
\* not deserialize.
DeserializeCreateAccountRequest(json) ==
    LET Then(t) ==
            IF t = <<>> THEN <<>>
            ELSE <<[code |-> json.code, name |-> json.name, account_type |-> t[1]]>>
    IN  Then(DeserializeAccountType(json.account_type))

\* web::Json<UpdateAccountRequest>: account_type is optional.
DeserializeUpdateAccountRequest(json) ==
    LET Then(t) ==
            IF t = <<>> THEN <<>>
            ELSE <<[code |-> json.code, name |-> json.name, account_type |-> t]>>
    IN  IF json.account_type = <<>>
        THEN <<[code |-> json.code, name |-> json.name, account_type |-> <<>>]>>
        ELSE Then(DeserializeAccountType(json.account_type[1]))

\* Texts sent as account_type: the five names, a name of no type, a name in
\* another case, the empty text.
TypeTexts == {"asset", "liability", "equity", "revenue", "expense", "contra", "Asset", ""}

CreateAccountBodies == [code : {"1000", "2000"}, name : {"Cash"}, account_type : TypeTexts]

UpdateAccountBodies == [code : {<<>>}, name : Opt({"Sales"}), account_type : Opt(TypeTexts)]

\* The extractor refused the body: the handler is not called.
JsonPayloadError(op) ==
    /\ resp' = [op |-> op, fault |-> NoFault, kind |-> "BadRequest",
                msg |-> "Json deserialize error", body |-> <<>>]
    /\ UNCHANGED <<accounts, transactions, entries, nextAccountId, nextTransactionId>>

\* POST /accounts with this body.
post_account(json) ==
    /\ run' = [account_type |-> <<json.account_type>>]
    /\ LET Then(d) ==
               IF d = <<>> THEN JsonPayloadError("create_account")
               ELSE create_account(d[1], NoFault)
       IN  Then(DeserializeCreateAccountRequest(json))
    /\ UNCHANGED <<hist, pool>>

\* PUT /accounts/{id} with this body.
put_account(account_id, json) ==
    /\ run' = [account_type |-> json.account_type]
    /\ LET Then(d) ==
               IF d = <<>> THEN JsonPayloadError("update_account")
               ELSE update_account(account_id, d[1], NoFault)
       IN  Then(DeserializeUpdateAccountRequest(json))
    /\ UNCHANGED <<hist, pool>>

\* AccountType::from(text)
from_string(text) ==
    /\ resp' = [op |-> "from_string", text |-> text, type |-> AccountTypeFromString(text)]
    /\ UNCHANGED <<accounts, transactions, entries, nextAccountId, nextTransactionId>>
    /\ UNCHANGED Aux

\* String::from(t), and AccountType::from of the result.
into_string(t) ==
    /\ resp' = [op |-> "into_string", type |-> t, text |-> AccountTypeToString(t),
                back |-> AccountTypeFromString(AccountTypeToString(t))]
    /\ UNCHANGED <<accounts, transactions, entries, nextAccountId, nextTransactionId>>
    /\ UNCHANGED Aux

NextTypes ==
    \/ /\ resp.op = "idle"
       /\ nextAccountId <= MaxAccounts
       /\ \E json \in CreateAccountBodies : post_account(json)
    \/ /\ resp.op = "idle"
       /\ \E id \in AccountIdInputs, json \in UpdateAccountBodies : put_account(id, json)
    \/ /\ resp.op = "idle"
       /\ \E text \in TypeTexts : from_string(text)
    \/ /\ resp.op = "idle"
       /\ \E t \in AccountTypes : into_string(t)
    \/ Respond

SpecTypes == Init /\ [][NextTypes]_vars

\* The names of the five account types.
TypeNames == {"asset", "liability", "equity", "revenue", "expense"}

\* C24: the type of every stored account is one of asset, liability, equity,
\* revenue, expense, and a create_account or update_account whose
\* account_type is none of these names is refused and changes no table.
C24_AccountTypeIsClosedSet ==
    /\ [](\A a \in accounts : a.account_type \in TypeNames)
    /\ [][/\ resp.op = "idle"
          /\ resp'.op \in {"create_account", "update_account"}
          /\ run'.account_type # <<>>
          /\ run'.account_type[1] \notin TypeNames
          => /\ resp'.kind # "ok"
             /\ Tables' = Tables]_vars

\* An update naming a type that does not exist was refused while an account
\* is stored.
C24_Witness ==
    /\ resp.op = "update_account"
    /\ resp.kind = "BadRequest"
    /\ run.account_type = <<"contra">>
    /\ accounts # {}

\* The type that carries each lowercase name.
TypeNamed(text) ==
    CHOOSE t \in AccountTypes :
        \/ text = "asset" /\ t = "Asset"
        \/ text = "liability" /\ t = "Liability"
        \/ text = "equity" /\ t = "Equity"
        \/ text = "revenue" /\ t = "Revenue"
        \/ text = "expense" /\ t = "Expense"

\* C25: a type converted to its string and back is the same type, its string
\* is one of the five lowercase names; each lowercase name converts to the
\* type of that name and every other string converts to Asset.
C25_ConversionsRoundTrip ==
    /\ resp.op = "into_string" =>
           /\ resp.back = resp.type
           /\ resp.text \in TypeNames
           /\ TypeNamed(resp.text) = resp.type
    /\ resp.op = "from_string" =>
           IF resp.text \in TypeNames
           THEN resp.type = TypeNamed(resp.text)
           ELSE resp.type = "Asset"

\* A string that names no type was converted.
C25_Witness ==
    /\ resp.op = "from_string"
    /\ resp.text = "contra"
    /\ resp.type = "Asset"

\* Revenue went to its string and back.
C25_RoundTripWitness ==
    /\ resp.op = "into_string"
    /\ resp.type = "Revenue"
    /\ resp.text = "revenue"
    /\ resp.back = "Revenue"


(***************************************************************************)
(* Committed transactions, and the checks of create_transaction.           *)
(***************************************************************************)
\* C26: a stored transaction row and its entry rows stay, with every field
\* as it was, through every step except a delete_transaction of that same
\* transaction.
C26_CommittedRowsAreFrozen ==
    [][\A t \in transactions :
           \/ resp'.op = "delete_transaction" /\ resp'.id = t.id
           \/ /\ t \in transactions'
              /\ TransactionRows(transactions', t.id) = {t}
              /\ EntryRows(entries', t.id) = EntryRows(entries, t.id)]_vars

\* The delete of an account that entries of a stored transaction name was
\* asked for, and refused.
C26_Witness ==
    /\ resp.op = "delete_account"
    /\ resp.msg = "ForeignKeyViolation"
    /\ \E t \in transactions : \E e \in EntryRows(entries, t.id) : e.account_id = resp.id


\* The reference or the description of the request is empty or too long.
OutOfBounds(req) ==
    \/ Len(req.reference) = 0
    \/ Len(req.reference) > 50
    \/ Len(req.description) = 0
    \/ Len(req.description) > 500

\* C27: create_transaction answers a request whose reference is empty or
\* longer than 50 characters, or whose description is empty or longer than
\* 500, with the Validation error of the structural validation and changes no
\* table; a request within these bounds does not get that error.
C27_LengthBoundsAreValidated ==
    [][resp.op = "idle" /\ resp'.op = "create_transaction" =>
           IF OutOfBounds(resp'.req)
           THEN /\ resp'.kind = "ValidationError"
                /\ resp'.msg = "Validation failed"
                /\ Tables' = Tables
           ELSE resp'.msg # "Validation failed"]_vars

\* A balanced one-entry request under a reference of 51 characters was
\* refused.
C27_Witness ==
    /\ resp.op = "create_transaction"
    /\ Len(resp.req.reference) = 51
    /\ Len(resp.req.entries) = 1
    /\ resp.kind = "ValidationError"
    /\ resp.msg = "Validation failed"

\* A request under a reference of exactly 50 characters was accepted.
C27_LongestReferenceAccepted ==
    /\ resp.op = "create_transaction"
    /\ Len(resp.req.reference) = 50
    /\ resp.kind = "ok"


\* The characters of the message of the balance check, the literal
\* "Total debits must equal total credits".
MismatchMessageText ==
    <<"T", "o", "t", "a", "l", " ", "d", "e", "b", "i", "t", "s", " ", "m",
      "u", "s", "t", " ", "e", "q", "u", "a", "l", " ", "t", "o", "t", "a",
      "l", " ", "c", "r", "e", "d", "i", "t", "s">>

\* The characters of an error message of create_transaction.
MessageText(msg) ==
    IF msg = "Total debits must equal total credits" THEN MismatchMessageText ELSE <<>>

\* The text has the word somewhere in it.
Contains(text, word) ==
    \E k \in 0..(Len(text) - Len(word)) : SubSeq(text, k + 1, k + Len(word)) = word

\* C28: the Validation error returned for a submission whose debit and
\* credit sums differ carries the debit total and the credit total.
C28_MismatchErrorCarriesTotals ==
    /\ resp.op = "create_transaction"
    /\ ValidateCreateTransactionRequest(resp.req)
    /\ ~DecEq(TotalDebits(resp.req.entries), TotalCredits(resp.req.entries))
    => /\ resp.kind = "ValidationError"
       /\ Contains(MessageText(resp.msg), DecToString(TotalDebits(resp.req.entries)))
       /\ Contains(MessageText(resp.msg), DecToString(TotalCredits(resp.req.entries)))


(***************************************************************************)
(* The response envelope (ApiResponse<T>, src/src/models.rs).  An Option   *)
(* is <<>> or <<value>>.  A handler that returns Ok wraps its payload with *)
(* ApiResponse::success; an AppError is answered by error_response with    *)
(* ApiResponse::error.  The envelope of the answer under way is in run.    *)
(***************************************************************************)
\* An error envelope that keeps its message as data.
ApiResponseErrorWithData(message) ==
    [success |-> FALSE, data |-> <<message>>, message |-> <<message>>, errors |-> <<>>]

\* ApiResponse::success(data)
ApiResponseSuccess(data) ==
    [success |-> TRUE, data |-> <<data>>, message |-> <<>>, errors |-> <<>>]

\* ApiResponse::error(message)
ApiResponseError(message) ==
    [success |-> FALSE, data |-> <<>>, message |-> <<message>>, errors |-> <<>>]

\* ApiResponse::validation_errors(errors)
ApiResponseValidationErrors(errors) ==
    [success |-> FALSE, data |-> <<>>, message |-> <<"Validation failed">>,
     errors |-> <<errors>>]

\* The body of the HTTP response: of Ok(..json(ApiResponse::success(..))) or
\* of AppError::error_response.
ResponseBody(r) ==
    IF r.kind = "ok" THEN ApiResponseSuccess(r.body) ELSE ApiResponseError(r.msg)

\* The handler's answer is wrapped.
Wrap ==
    /\ run' = ResponseBody(resp')
    /\ UNCHANGED <<hist, pool>>

\* Payloads, messages and error lists handed to the builders directly.
DataInputs == {"test data", "", "OK"}
MessageInputs == {"error message", "Something went wrong", ""}
ErrorListInputs ==
    {<<>>, <<"field1 is required", "field2 is invalid">>,
     <<"Code is required", "Name cannot be empty">>}

\* A builder was called with this argument.
Built(builder, arg, envelope) ==
    /\ resp' = [op |-> builder, arg |-> arg]
    /\ run' = envelope
    /\ UNCHANGED <<accounts, transactions, entries, nextAccountId, nextTransactionId,
                   hist, pool>>

NextEnvelope ==
    \/ /\ resp.op = "idle"
       /\ nextAccountId <= MaxAccounts
       /\ \E req \in CreateAccountRequests, f \in CreateAccountFaults : create_account(req, f)
       /\ Wrap
    \/ /\ resp.op = "idle"
       /\ \E id \in AccountIdInputs, f \in ReadAccountFaults : get_account(id, f)
       /\ Wrap
    \/ /\ resp.op = "idle"
       /\ \E f \in ReadAccountFaults : get_all_accounts(f)
       /\ Wrap
    \/ /\ resp.op = "idle"
       /\ \E id \in AccountIdInputs, f \in DeleteFaults : delete_account(id, f)
       /\ Wrap
    \/ /\ resp.op = "idle"
       /\ nextTransactionId <= MaxTx
       /\ \E req \in SaleRequests : create_transaction(req, NoFault)
       /\ Wrap
    \/ /\ resp.op = "idle"
       /\ \E id \in AccountIdInputs, f \in BalanceFaults : get_account_balance(id, f)
       /\ Wrap
    \/ /\ resp.op = "idle"
       /\ \E data \in DataInputs : Built("success", data, ApiResponseSuccess(data))
    \/ /\ resp.op = "idle"
       /\ \E message \in MessageInputs : Built("error", message, ApiResponseError(message))
    \/ /\ resp.op = "idle"
       /\ \E errors \in ErrorListInputs :
             Built("validation_errors", errors, ApiResponseValidationErrors(errors))
    \/ Respond

SpecEnvelope == Init /\ [][NextEnvelope]_vars

\* C29: in every envelope data is present exactly when success is true; a
\* success envelope has its data, no message and no errors; an error
\* envelope has the given message, no data and no errors; a validation-errors
\* envelope has no data, the message "Validation failed" and the given list
\* of errors.  This holds for the envelopes built directly and for the
\* envelope of every handler's answer.
C29_EnvelopeShape ==
    resp.op # "idle" =>
        /\ run.success <=> run.data # <<>>
        /\ run.success => run.message = <<>> /\ run.errors = <<>>
        /\ resp.op = "success" =>
               run.success /\ run.data = <<resp.arg>>
        /\ resp.op = "error" =>
               ~run.success /\ run.message = <<resp.arg>> /\ run.errors = <<>>
        /\ resp.op = "validation_errors" =>
               /\ ~run.success
               /\ run.message = <<"Validation failed">>
               /\ run.errors = <<resp.arg>>
        /\ resp.op \notin {"success", "error", "validation_errors"} =>
               IF resp.kind = "ok"
               THEN run.success /\ run.data = <<resp.body>>
               ELSE ~run.success /\ run.message = <<resp.msg>> /\ run.errors = <<>>

\* A handler failed and its error was wrapped.
C29_Witness ==
    /\ resp.op = "get_account_balance"
    /\ resp.kind = "NotFound"
    /\ ~run.success
    /\ run.data = <<>>
    /\ run.message # <<>>

\* A validation-errors envelope with two errors was built.
C29_ValidationErrorsBuilt ==
    /\ resp.op = "validation_errors"
    /\ run.errors # <<>>
    /\ Len(run.errors[1]) = 2

\* A handler's payload was wrapped in a success envelope.
C29_SuccessWrapped ==
    /\ resp.op = "create_account"
    /\ run.success
    /\ run.data = <<resp.body>>


\* The message of the first check that fails when the checks are made in the
\* order structural validation, empty entry list, balance, accounts of the
\* entries; "" when none of them fails.
FirstFailingCheck(req, accts) ==
    IF OutOfBounds(req) THEN "Validation failed"
    ELSE IF Len(req.entries) = 0 THEN "Transaction must have at least one entry"
    ELSE IF RequestDebitSum(req.entries) # RequestCreditSum(req.entries)
    THEN "Total debits must equal total credits"
    ELSE IF NamesMissingAccount(req, accts) THEN "ForeignKeyViolation"
    ELSE ""

\* C30: the error create_transaction returns is that of the first failing
\* check in the order structural validation, empty entry list, balance
\* mismatch, referential check, whenever one of the four fails and neither
\* the store nor the pool failed on its own account (no storage fault, no
\* stored transaction with the reference); when none of them fails the
\* answer is no error of these checks.
C30_FirstFailingCheckIsReported ==
    /\ resp.op = "create_transaction"
    /\ resp.fault = NoFault
    /\ resp.msg # "UniqueViolation"
    => IF FirstFailingCheck(resp.req, accounts) # ""
       THEN resp.kind # "ok" /\ resp.msg = FirstFailingCheck(resp.req, accounts)
       ELSE resp.msg \notin {"Validation failed", "Transaction must have at least one entry",
                             "Total debits must equal total credits", "ForeignKeyViolation"}

\* A request with no entries and with legal reference and description got
\* the error of the empty entry list.
C30_Witness ==
    /\ resp.op = "create_transaction"
    /\ ~OutOfBounds(resp.req)
    /\ resp.req.entries = <<>>
    /\ resp.kind = "ValidationError"
    /\ resp.msg = "Transaction must have at least one entry"

\* An unbalanced request naming an account that does not exist got the
\* balance error.
C30_BalanceBeforeAccounts ==
    /\ resp.op = "create_transaction"
    /\ NamesMissingAccount(resp.req, accounts)
    /\ resp.msg = "Total debits must equal total credits"


(***************************************************************************)
(* Entries with both amounts or with neither.                              *)
(***************************************************************************)
\* The entry carries both a debit and a credit, or neither.
TwoSided(e) == e.debit_amount # <<>> /\ e.credit_amount # <<>>
NoSided(e) == e.debit_amount = <<>> /\ e.credit_amount = <<>>

\* The text under which an amount of a request is stored.
StoredText(amount) == IF amount = <<>> THEN <<"0">> ELSE DecToString(amount[1])

\* C31: a request with an entry that has both amounts, or neither, whose
\* totals are equal and that fails no other check (no storage fault, no
\* stored transaction with its reference) is accepted, and each of its
\* entries is stored with the amounts given, an absent amount as zero.
C31_BothOrNeitherAmountAccepted ==
    /\ resp.op = "create_transaction"
    /\ resp.fault = NoFault
    /\ resp.msg # "UniqueViolation"
    /\ FirstFailingCheck(resp.req, accounts) = ""
    /\ \E k \in 1..Len(resp.req.entries) :
           TwoSided(resp.req.entries[k]) \/ NoSided(resp.req.entries[k])
    => /\ resp.kind = "ok"
       /\ \A k \in 1..Len(resp.req.entries) :
              \E e \in EntryRows(entries, resp.new_id) :
                  /\ e.id = <<resp.new_id, k>>
                  /\ e.account_id = resp.req.entries[k].account_id
                  /\ e.debit_amount = StoredText(resp.req.entries[k].debit_amount)
                  /\ e.credit_amount = StoredText(resp.req.entries[k].credit_amount)
       /\ Cardinality(EntryRows(entries, resp.new_id)) = Len(resp.req.entries)

\* A transaction of two entries was accepted, one with both amounts and one
\* with neither.
C31_Witness ==
    /\ resp.op = "create_transaction"
    /\ resp.kind = "ok"
    /\ Len(resp.req.entries) = 2
    /\ TwoSided(resp.req.entries[1])
    /\ NoSided(resp.req.entries[2])
    /\ \E e \in EntryRows(entries, resp.new_id) :
           e.debit_amount = <<"1", ".", "0">> /\ e.credit_amount = <<"1">>
    /\ \E e \in EntryRows(entries, resp.new_id) :
           e.debit_amount = <<"0">> /\ e.credit_amount = <<"0">>


(***************************************************************************)
(* update_account as a unit.                                               *)
(***************************************************************************)
\* C32: an update_account that returns an error has changed no field of any
\* account.
C32_FailedUpdateChangesNothing ==
    [][resp.op = "idle" /\ resp'.op = "update_account" /\ resp'.kind # "ok"
       => accounts' = accounts]_vars


(***************************************************************************)
(* The books as a whole.                                                   *)
(***************************************************************************)
\* The sum of the balances, in units of the finest amount, of the records of
\* a listing whose account type is one of these.
BalanceSum(listing, types) ==
    SumSeq([i \in DOMAIN listing |->
               IF listing[i].account_type \in types THEN Units(listing[i].balance) ELSE 0])

RECURSIVE ViewDebitSum(_)
\* The debit and credit sums of the entries of a transaction view.
ViewDebitSum(S) ==
    IF S = {} THEN 0
    ELSE LET e == CHOOSE x \in S : TRUE
         IN  Units(e.debit_amount) + ViewDebitSum(S \ {e})

RECURSIVE ViewCreditSum(_)
ViewCreditSum(S) ==
    IF S = {} THEN 0
    ELSE LET e == CHOOSE x \in S : TRUE
         IN  Units(e.credit_amount) + ViewCreditSum(S \ {e})

====
